---- MODULE Spec2Model ----
(***************************************************************************)
(* Half-edge mesh of HalfEdgeMesh.cpp (src/unnamed/part_001).              *)
(*                                                                         *)
(* Objects live in heaps (sequences of records); a handle is the index of  *)
(* the object in its heap and 0 is the null pointer.  `delete` clears the  *)
(* live flag and leaves the record in place, so a stale handle still       *)
(* denotes the freed object.  A null dereference, a use of a freed object  *)
(* or an erase of an element that is not in the vector sets ub.            *)
(*                                                                         *)
(* Positions are integer triples in units of 1/64, so that the midpoint    *)
(* (p + q) * 0.5 of the code is exact for the depths reached here.         *)
(***************************************************************************)
EXTENDS Integers, Sequences, FiniteSets, TLC

VARIABLES m_vertices, m_faces, m_regions, m_globalIndex,
          vertexHeap, edgeHeap, faceHeap, regionHeap, ub, hang, soup, calls, last,
          m_chunkAmount

vars == <<m_vertices, m_faces, m_regions, m_globalIndex,
          vertexHeap, edgeHeap, faceHeap, regionHeap, ub, hang, soup, calls, last,
          m_chunkAmount>>

\* ---------------------------------------------------------------- bounds
\* vertices added in the builder and editor specifications
MaxVertices == 4

\* triangles added where the faces are not edited afterwards
MaxFaces == 3

\* triangles added where editor calls follow
EditFaces == 2

\* vertices of the meshes on which every builder and editor is called
EditVertices == 3

\* vertices added in the builder and segmentation specifications
GrowVertices == 5

\* half-edges ever allocated where flips are studied
MaxEdges == 16

\* half-edges ever allocated where flips mix with the other editor calls
EditEdges == 12

\* half-edges ever allocated where faces that share no edge are flipped
TurnEdges == 18

\* calls of safeCollapseEdge or fillHoles in one behaviour, and of collapseEdge
\* where it mixes with the other editor calls
MaxCalls == 2

\* calls of collapseEdge where collapses are studied
MaxCollapses == 3

\* regions ever allocated
MaxRegions == 2

\* largest max_size passed to fillHoles
MaxHole == 5

\* vertices added where the region list is studied
RegionVertices == 3

\* calls of optimizePlanes, removeDanglingArtifacts and collapseEdge where the
\* region list is studied
MaxPasses == 3

\* calls of optimizePlanes, removeDanglingArtifacts and deleteRegion where
\* regions of the region list are deleted
MaxDiscards == 4

\* vertices of the closed mesh whose export fills the buffers
RingVertices == 7

\* largest iteration count passed to optimizePlanes
MaxIterations == 2

\* largest small_region_size passed to optimizePlanes and largest threshold passed
\* to removeDanglingArtifacts
MaxThreshold == 3

\* ------------------------------------------------------- generic helpers
Has(s, x) == \E i \in 1..Len(s) : s[i] = x

IndexOf(s, x) ==
    IF Has(s, x)
    THEN CHOOSE i \in 1..Len(s) : s[i] = x /\ \A j \in 1..(i - 1) : s[j] # x
    ELSE 0

\* vector::erase(find(begin, end, x)) for an x that is in the vector
Erase(s, x) ==
    LET i == IndexOf(s, x)
    IN  IF i = 0 THEN s ELSE SubSeq(s, 1, i - 1) \o SubSeq(s, i + 1, Len(s))

Count(s, x) == Cardinality({i \in 1..Len(s) : s[i] = x})

Range(s) == {s[i] : i \in 1..Len(s)}

MaxOf(S) == CHOOSE x \in S : \A y \in S : y <= x

\* ------------------------------------------------------------ the heaps
NullEdge == [start |-> 0, end |-> 0, pair |-> 0, next |-> 0, face |-> 0,
             used |-> FALSE, live |-> FALSE]

NullVertex == [pos |-> <<0, 0, 0>>, normal |-> <<0, 0, 0>>, out |-> <<>>, in |-> <<>>,
               live |-> FALSE]

NullFace == [edge |-> 0, region |-> 0, used |-> FALSE, live |-> FALSE]

NullRegion == [faces |-> <<>>, inPlane |-> FALSE, number |-> 0, live |-> FALSE]

EmptyMesh == [vs |-> <<>>, fs |-> <<>>, rs |-> <<>>, gi |-> 0,
              V |-> <<>>, E |-> <<>>, F |-> <<>>, R |-> <<>>, ub |-> FALSE,
              hang |-> FALSE]

Mesh == [vs |-> m_vertices, fs |-> m_faces, rs |-> m_regions, gi |-> m_globalIndex,
         V |-> vertexHeap, E |-> edgeHeap, F |-> faceHeap, R |-> regionHeap,
         ub |-> ub, hang |-> hang]

Crash(m) == [m EXCEPT !.ub = TRUE]

IsEdge(m, e) == e \in 1..Len(m.E) /\ m.E[e].live

IsVertex(m, v) == v \in 1..Len(m.V) /\ m.V[v].live

IsFace(m, f) == f \in 1..Len(m.F) /\ m.F[f].live

IsRegion(m, r) == r \in 1..Len(m.R) /\ m.R[r].live

EdgeAt(m, e) == IF e \in 1..Len(m.E) THEN m.E[e] ELSE NullEdge

VertexAt(m, v) == IF v \in 1..Len(m.V) THEN m.V[v] ELSE NullVertex

FaceAt(m, f) == IF f \in 1..Len(m.F) THEN m.F[f] ELSE NullFace

RegionAt(m, r) == IF r \in 1..Len(m.R) THEN m.R[r] ELSE NullRegion

start(m, e) == EdgeAt(m, e).start

end(m, e) == EdgeAt(m, e).end

pair(m, e) == EdgeAt(m, e).pair

next(m, e) == EdgeAt(m, e).next

face(m, e) == EdgeAt(m, e).face

used(m, e) == EdgeAt(m, e).used

out(m, v) == VertexAt(m, v).out

in(m, v) == VertexAt(m, v).in

position(m, v) == VertexAt(m, v).pos

normal(m, v) == VertexAt(m, v).normal

\* field writes: a write through a null or freed handle is undefined behaviour
setPair(m, e, p) == IF IsEdge(m, e) THEN [m EXCEPT !.E[e].pair = p] ELSE Crash(m)

setNext(m, e, n) == IF IsEdge(m, e) THEN [m EXCEPT !.E[e].next = n] ELSE Crash(m)

setFace(m, e, f) == IF IsEdge(m, e) THEN [m EXCEPT !.E[e].face = f] ELSE Crash(m)

setStart(m, e, v) == IF IsEdge(m, e) THEN [m EXCEPT !.E[e].start = v] ELSE Crash(m)

setEnd(m, e, v) == IF IsEdge(m, e) THEN [m EXCEPT !.E[e].end = v] ELSE Crash(m)

setUsed(m, e, u) == IF IsEdge(m, e) THEN [m EXCEPT !.E[e].used = u] ELSE Crash(m)

setPosition(m, v, p) == IF IsVertex(m, v) THEN [m EXCEPT !.V[v].pos = p] ELSE Crash(m)

pushOut(m, v, e) == IF IsVertex(m, v) THEN [m EXCEPT !.V[v].out = Append(@, e)] ELSE Crash(m)

pushIn(m, v, e) == IF IsVertex(m, v) THEN [m EXCEPT !.V[v].in = Append(@, e)] ELSE Crash(m)

\* HalfEdge() and HalfEdgeFace(): used, next, face and m_region start cleared
NewEdge(s, t, p, f) == [start |-> s, end |-> t, pair |-> p, next |-> 0, face |-> f,
                        used |-> FALSE, live |-> TRUE]

NewFace == [edge |-> 0, region |-> 0, used |-> FALSE, live |-> TRUE]

\* HalfEdgeFace::operator[](k): the k-th half-edge of the face, from m_edge
faceEdge(m, f, k) ==
    LET e0 == FaceAt(m, f).edge
    IN  IF k = 0 THEN e0 ELSE IF k = 1 THEN next(m, e0) ELSE next(m, next(m, e0))

\* HalfEdgeFace::operator()(k): the end vertex of the k-th half-edge
faceVertex(m, f, k) == end(m, faceEdge(m, f, k))

\* ------------------------------------------------------------- positions
VertexPos == << <<0, 0, 0>>, <<64, 0, 0>>, <<64, 64, 0>>, <<0, 64, 0>>,
                <<0, 0, 64>>, <<64, 0, 64>> >>

PosOf(i) == IF i \in 1..Len(VertexPos) THEN VertexPos[i] ELSE <<64 * i, 0, 64>>

\* (p + q) * 0.5
Midpoint(p, q) == <<(p[1] + q[1]) \div 2, (p[2] + q[2]) \div 2, (p[3] + q[3]) \div 2>>

\* ------------------------------------------------------ vertex operations
addVertex(m, v) ==
    [m EXCEPT !.V = Append(@, [pos |-> v, normal |-> <<0, 0, 0>>, out |-> <<>>,
                               in |-> <<>>, live |-> TRUE]),
              !.vs = Append(@, Len(m.V) + 1),
              !.gi = @ + 1]

\* lines 42-48; the assertion fails when a vertex has been deleted and not re-added
addNormal(m, n) ==
    IF m.gi # Len(m.vs) \/ m.gi < 1 \/ ~IsVertex(m, m.vs[m.gi]) THEN Crash(m)
    ELSE [m EXCEPT !.V[m.vs[m.gi]].normal = n]

\* the vertex counter is left alone
deleteVertexUncounted(m, v) ==
    IF ~IsVertex(m, v) \/ ~Has(m.vs, v)
    THEN Crash(m)
    ELSE [m EXCEPT !.vs = Erase(@, v), !.V[v].live = FALSE]

deleteVertex(m, v) ==
    IF ~IsVertex(m, v) \/ ~Has(m.vs, v)
    THEN Crash(m)
    ELSE [m EXCEPT !.vs = Erase(@, v), !.gi = @ - 1, !.V[v].live = FALSE]

\* no half-edge is ever found
halfEdgeToVertexNull(m, v, nx) == 0

\* the last incoming half-edge of v that starts at nx, or null
halfEdgeToVertex(m, v, nx) ==
    LET inv == in(m, v)
        hits == {i \in 1..Len(inv) : end(m, inv[i]) = v /\ start(m, inv[i]) = nx}
    IN  IF hits = {} THEN 0 ELSE inv[MaxOf(hits)]

\* -------------------------------------------------------------- builder
\* both new half-edges are given the face
newEdgePairFaced(m, f, cur, nx) ==
    LET e == Len(m.E) + 1
        p == Len(m.E) + 2
        m1 == [m EXCEPT !.E = @ \o <<NewEdge(cur, nx, p, f), NewEdge(nx, cur, e, f)>>]
    IN  pushOut(pushIn(pushIn(pushOut(m1, cur, e), nx, e), cur, p), nx, p)

\* lines 126-150: a fresh half-edge cur->nx on face f and its faceless pair
newEdgePair(m, f, cur, nx) ==
    LET e == Len(m.E) + 1
        p == Len(m.E) + 2
        m1 == [m EXCEPT !.E = @ \o <<NewEdge(cur, nx, p, f), NewEdge(nx, cur, e, 0)>>]
    IN  pushOut(pushIn(pushIn(pushOut(m1, cur, e), nx, e), cur, p), nx, p)

\* one pass of the loop of addTriangle: the mesh and edges[k]
addTriangleEdge(m, f, cur, nx) ==
    LET edgeToVertex == halfEdgeToVertex(m, cur, nx)
    IN  IF edgeToVertex # 0
        THEN [m |-> setFace(m, pair(m, edgeToVertex), f), e |-> pair(m, edgeToVertex)]
        ELSE [m |-> newEdgePair(m, f, cur, nx), e |-> Len(m.E) + 1]

addTriangle(m, a, b, c) ==
    LET f  == Len(m.F) + 1
        m0 == [m EXCEPT !.F = Append(@, NewFace)]
        r0 == addTriangleEdge(m0, f, m.vs[a + 1], m.vs[b + 1])
        r1 == addTriangleEdge(r0.m, f, m.vs[b + 1], m.vs[c + 1])
        r2 == addTriangleEdge(r1.m, f, m.vs[c + 1], m.vs[a + 1])
        m3 == setNext(setNext(setNext(r2.m, r0.e, r1.e), r1.e, r2.e), r2.e, r0.e)
    IN  [m3 EXCEPT !.F[f].edge = r0.e, !.fs = Append(@, f)]

\* m with ub set unless every handle of S is a live half-edge
needEdges(m, S) == IF \A e \in S : IsEdge(m, e) THEN m ELSE Crash(m)

\* the found half-edge is taken whether it has a face or not
addFaceEdgeFound(m, a, b) ==
    LET current == halfEdgeToVertex(m, a, b)
    IN  IF current = 0
        THEN [m |-> newEdgePair(m, 0, a, b), e |-> Len(m.E) + 1]
        ELSE [m |-> m, e |-> current]

\* lines 190-219: the half-edge addFace takes for the side a->b: a fresh one
\* without a face, or the found half-edge b->a when it has no face, or its pair
addFaceEdge(m, a, b) ==
    LET current == halfEdgeToVertex(m, a, b)
    IN  IF current = 0
        THEN [m |-> newEdgePair(m, 0, a, b), e |-> Len(m.E) + 1]
        ELSE IF face(m, current) = 0
             THEN [m |-> m, e |-> current]
             ELSE [m |-> m, e |-> pair(m, current)]

addFace(m, v1, v2, v3) ==
    LET f  == Len(m.F) + 1
        \* lines 281-286: n when the end of e lists it among its outgoing
        \* half-edges, else the pair of n
        nextOf(x, e, n) == IF Has(out(x, end(x, e)), n) THEN n ELSE pair(x, n)
        \* lines 279-299: the next pointers, read back through v1v2 as the code does
        link(x, v1v2, v2v3, v3v1) ==
            LET x0 == needEdges(x, {v1v2, v2v3, v3v1})
                x1 == setNext(x0, v1v2, nextOf(x0, v1v2, v2v3))
                x2 == setNext(x1, next(x1, v1v2), nextOf(x1, next(x1, v1v2), v3v1))
            IN  setNext(x2, next(x2, next(x2, v1v2)), v1v2)
        \* lines 304-307: the face pointer of three half-edges along next
        mark(x, v1v2) ==
            LET x1 == setFace(x, v1v2, f)
                x2 == setFace(x1, next(x1, v1v2), f)
            IN  setFace(x2, next(x2, next(x2, v1v2)), f)
        m0 == [m EXCEPT !.F = Append(@, NewFace)]
        r0 == addFaceEdge(m0, v1, v2)
        r1 == addFaceEdge(r0.m, v2, v3)
        r2 == addFaceEdge(r1.m, v3, v1)
        m3 == mark(link(r2.m, r0.e, r1.e, r2.e), r0.e)
    IN  [m3 EXCEPT !.F[f].edge = r0.e, !.fs = Append(@, f)]

\* ------------------------------------------------------ topology editor
\* lines 367-370 (375-378): take e out of start->out and out of end->in
unlinkEdge(m, e) ==
    LET s == start(m, e)
        t == end(m, e)
    IN  IF ~IsEdge(m, e) \/ ~IsVertex(m, s) \/ ~IsVertex(m, t)
           \/ ~Has(out(m, s), e) \/ ~Has(in(m, t), e)
        THEN Crash(m)
        ELSE [m EXCEPT !.V[s].out = Erase(@, e), !.V[t].in = Erase(@, e)]

freeEdge(m, e) == IF IsEdge(m, e) THEN [m EXCEPT !.E[e].live = FALSE] ELSE Crash(m)

\* nothing is unlinked or freed
deleteEdgeNot(m, edge, deletePair) == m

deleteEdge(m, edge, deletePair) ==
    LET m1 == unlinkEdge(m, edge)
        m2 == IF deletePair
              THEN freeEdge(unlinkEdge(m1, pair(m1, edge)), pair(m1, edge))
              ELSE m1
    IN  freeEdge(m2, edge)

\* Region::removeFace(f)
removeFace(m, r, f) ==
    IF IsRegion(m, r) /\ Has(m.R[r].faces, f)
    THEN [m EXCEPT !.R[r].faces = Erase(@, f)]
    ELSE Crash(m)

\* m_faces.erase(find(..., f)); delete f;  ~HalfEdgeFace() takes f out of its region
freeFace(m, f) ==
    IF ~IsFace(m, f) \/ ~Has(m.fs, f)
    THEN Crash(m)
    ELSE LET r  == m.F[f].region
             m1 == [m EXCEPT !.fs = Erase(@, f), !.F[f].live = FALSE]
         IN  IF r = 0 THEN m1 ELSE removeFace(m1, r, f)

\* if(p->out.size()==0) deleteVertex(p);
deleteIfIsolated(m, p) ==
    IF ~IsVertex(m, p) THEN Crash(m)
    ELSE IF Len(out(m, p)) = 0 THEN deleteVertex(m, p) ELSE m

\* the half-edge pair goes, its end points stay in the vertex list
deleteFaceEdgeOnly(m, e, pa, pb) ==
    IF ~IsEdge(m, e) \/ ~IsEdge(m, pair(m, e)) THEN Crash(m)
    ELSE IF face(m, pair(m, e)) = 0 THEN deleteEdge(m, e, TRUE) ELSE m

\* one of the three blocks of lines 331-356
deleteFaceEdge(m, e, pa, pb) ==
    IF ~IsEdge(m, e) \/ ~IsEdge(m, pair(m, e)) THEN Crash(m)
    ELSE IF face(m, pair(m, e)) = 0
         THEN deleteIfIsolated(deleteIfIsolated(deleteEdge(m, e, TRUE), pa), pb)
         ELSE m

clearEdge(m, e) == setNext(setFace(m, e, 0), e, 0)

deleteFace(m, f) ==
    LET startEdge == faceEdge(m, f, 0)
        nextEdge  == faceEdge(m, f, 1)
        lastEdge  == faceEdge(m, f, 2)
        p1 == faceVertex(m, f, 0)
        p2 == faceVertex(m, f, 1)
        p3 == faceVertex(m, f, 2)
        m1 == clearEdge(clearEdge(clearEdge(m, startEdge), nextEdge), lastEdge)
        m2 == deleteFaceEdge(m1, startEdge, p1, p3)
        m3 == deleteFaceEdge(m2, nextEdge, p1, p2)
        m4 == deleteFaceEdge(m3, lastEdge, p3, p2)
    IN  IF ~IsFace(m, f) THEN Crash(m) ELSE freeFace(m4, f)

\* lines 397-403 (405-411) for the side e of the collapsed edge
collapseSide(m, e) ==
    LET \* the five half-edges the block goes through, or undefined behaviour
        sideEdges(x) ==
            needEdges(x, {e, next(x, e), next(x, next(x, e)),
                          pair(x, next(x, e)), pair(x, next(x, next(x, e)))})
        \* edge->next->next->pair->pair = edge->next->pair;
        pairOuter(x) == setPair(x, pair(x, next(x, next(x, e))), pair(x, next(x, e)))
        \* edge->next->pair->pair = edge->next->next->pair;
        pairInner(x) == setPair(x, pair(x, next(x, e)), pair(x, next(x, next(x, e))))
        \* deleteEdge(edge->next->next, false);
        deleteNextNext(x) == deleteEdge(x, next(x, next(x, e)), FALSE)
        \* deleteEdge(edge->next, false);
        deleteNext(x) == deleteEdge(x, next(x, e), FALSE)
    IN  IF face(m, e) = 0 THEN m
        ELSE deleteNext(deleteNextNext(pairInner(pairOuter(sideEdges(m)))))

\* the face of side e stays in m_faces
collapseFaceKept(m, e) == m

\* lines 414-424 for the side e
collapseFace(m, e) == IF face(m, e) # 0 THEN freeFace(m, face(m, e)) ELSE m

RECURSIVE rehomeOut(_, _, _, _)
\* lines 431-437, from position i of p2->out
rehomeOut(m, p1, p2, i) ==
    IF i > Len(out(m, p2)) THEN m
    ELSE LET e == out(m, p2)[i]
         IN  rehomeOut(pushOut(setStart(m, e, p1), p1, e), p1, p2, i + 1)

RECURSIVE rehomeIn(_, _, _, _)
\* lines 439-445, from position i of p2->in
rehomeIn(m, p1, p2, i) ==
    IF i > Len(in(m, p2)) THEN m
    ELSE LET e == in(m, p2)[i]
         IN  rehomeIn(pushIn(setEnd(m, e, p1), p1, e), p1, p2, i + 1)

collapseEdge(m, edge) ==
    LET p1 == start(m, edge)
        p2 == end(m, edge)
        \* p1->m_position = (p1->m_position + p2->m_position)*0.5;
        moveToCentre(x) == setPosition(x, p1, Midpoint(position(x, p1), position(x, p2)))
        \* lines 405-411: the side of the pair
        collapsePairSide(x) == collapseSide(x, pair(x, edge))
        \* lines 414-424: the face of the pair, then the face of edge
        collapsePairFace(x) == collapseFace(x, pair(x, edge))
        \* lines 431-445; with p1 = p2 the loops push_back into the vector they
        \* iterate over
        rehome(x) ==
            IF p1 = p2 /\ (Len(out(x, p2)) > 0 \/ Len(in(x, p2)) > 0)
            THEN Crash(x)
            ELSE rehomeIn(rehomeOut(x, p1, p2, 1), p1, p2, 1)
        m0 == needEdges(m, {edge, pair(m, edge)})
        m1 == moveToCentre(m0)
        m2 == collapsePairSide(collapseSide(m1, edge))
        m3 == collapseFace(collapsePairFace(m2), edge)
        m4 == deleteEdge(m3, edge, TRUE)
        m5 == rehome(m4)
    IN  deleteVertex(m5, p2)

flipEdge(m, edge) ==
    IF ~IsEdge(m, edge) \/ ~IsEdge(m, pair(m, edge)) THEN Crash(m)
    ELSE IF face(m, pair(m, edge)) # 0 /\ face(m, edge) # 0
    THEN
        LET pr == pair(m, edge)
            newEdgeStart == end(m, next(m, edge))
            newEdgeEnd   == end(m, next(m, pr))
            newEdge == Len(m.E) + 1
            newPair == Len(m.E) + 2
            \* a->next->next->next = b->next;
            closeCycle(x, a, b) == setNext(x, next(x, next(x, a)), next(x, b))
            \* lines 488-505: a half-edge from s to t with the face and the
            \* successor of e->next->next, entered in the lists of its ends
            created(x, s, t, p, e) ==
                [x EXCEPT !.E = Append(@,
                    [NewEdge(s, t, p, face(x, next(x, next(x, e))))
                        EXCEPT !.next = next(x, next(x, e))])]
            entered(x, s, t) == pushIn(pushOut(x, s, Len(x.E)), t, Len(x.E))
            \* newEdge->face->m_edge = newEdge; newPair->face->m_edge = newPair;
            flipFaceEdges(x) ==
                IF IsFace(x, face(x, newEdge)) /\ IsFace(x, face(x, newPair))
                THEN [x EXCEPT !.F[face(x, newEdge)].edge = newEdge,
                               !.F[face(x, newPair)].edge = newPair]
                ELSE Crash(x)
            \* e->next->next = n;
            setNextOfNext(x, e, n) == setNext(x, next(x, e), n)
            \* e->next->face = e->face;
            setFaceOfNext(x, e) == setFace(x, next(x, e), face(x, e))
            \* e->next->next->face = e->face;
            setFaceOfNextNext(x, e) == setFace(x, next(x, next(x, e)), face(x, e))
            \* update next pointers
            m1 == closeCycle(m, edge, pr)
            m2 == closeCycle(m1, pr, edge)
            \* create the new edge
            m3 == entered(created(m2, newEdgeStart, newEdgeEnd, 0, pr),
                          newEdgeStart, newEdgeEnd)
            m4 == entered(created(m3, newEdgeEnd, newEdgeStart, newEdge, edge),
                          newEdgeEnd, newEdgeStart)
            m5 == setPair(m4, newEdge, newPair)
            \* update face->edge pointers
            m6 == flipFaceEdges(m5)
            \* update next pointers
            m7 == setNextOfNext(m6, edge, newEdge)
            m8 == setNextOfNext(m7, pr, newPair)
            \* update edge->face pointers
            m9  == setFaceOfNext(m8, newEdge)
            m10 == setFaceOfNextNext(m9, newEdge)
            m11 == setFaceOfNext(m10, newPair)
            m12 == setFaceOfNextNext(m11, newPair)
        IN  deleteEdge(m12, edge, TRUE)
    ELSE m

\* the search finds nothing: the first half-edge of f1 is flipped
flipEdgeOfFacesAny(m, f1, f2) ==
    IF ~IsFace(m, f1) THEN Crash(m)
    ELSE LET first == m.F[f1].edge
             cycle == <<first, next(m, first), next(m, next(m, first))>>
             common == {k \in 1..3 : face(m, pair(m, cycle[k])) = f2}
         IN  IF \E k \in 1..3 : ~IsEdge(m, cycle[k]) \/ ~IsEdge(m, pair(m, cycle[k]))
             THEN Crash(m)
             ELSE IF common = {} THEN flipEdge(m, first)
             ELSE flipEdge(m, cycle[CHOOSE k \in common : \A l \in common : l <= k])

\* flipEdge(HFace* f1, HFace* f2), lines 451-472: the last of the three
\* half-edges of f1 whose pair lies on f2 is flipped; without one the call returns
flipEdgeOfFaces(m, f1, f2) ==
    IF ~IsFace(m, f1) THEN Crash(m)
    ELSE LET first == m.F[f1].edge
             cycle == <<first, next(m, first), next(m, next(m, first))>>
             common == {k \in 1..3 : face(m, pair(m, cycle[k])) = f2}
         IN  IF \E k \in 1..3 : ~IsEdge(m, cycle[k]) \/ ~IsEdge(m, pair(m, cycle[k]))
             THEN Crash(m)
             ELSE IF common = {} THEN m
             ELSE flipEdge(m, cycle[CHOOSE k \in common : \A l \in common : l <= k])

\* ----------------------------------------------------------- segmentation
\* new Region(number)
newRegion(m, number) ==
    [m EXCEPT !.R = Append(@, [faces |-> <<>>, inPlane |-> FALSE, number |-> number,
                               live |-> TRUE])]

\* Region::addFace(f): the region lists f and f refers to the region
regionAddFace(m, r, f) ==
    IF IsRegion(m, r) /\ IsFace(m, f)
    THEN [m EXCEPT !.R[r].faces = Append(@, f), !.F[f].region = r]
    ELSE Crash(m)

markUsed(m, f) == IF IsFace(m, f) THEN [m EXCEPT !.F[f].used = TRUE] ELSE Crash(m)

\* the seed alone joins the region
regionGrowingSeedOnly(m, start_face, region) ==
    [m |-> regionAddFace(markUsed(m, start_face), region, start_face), cnt |-> 0]

\* the faces found by the recursive call are not counted
countedAlone(neighbor_cnt, deeper) == neighbor_cnt + 1

\* lines 546 and 568: ++neighbor_cnt += regionGrowing(...)
counted(neighbor_cnt, deeper) == neighbor_cnt + 1 + deeper

RECURSIVE regionGrowing(_, _, _)
\* the unthresholded regionGrowing: the mesh after the call and the value returned
regionGrowing(m, start_face, region) ==
    LET m0 == regionAddFace(markUsed(m, start_face), region, start_face)
        visit(acc, k) ==
            LET e  == faceEdge(acc.m, start_face, k)
                nb == face(acc.m, pair(acc.m, e))
            IN  IF ~IsEdge(acc.m, e) \/ ~IsEdge(acc.m, pair(acc.m, e))
                   \/ (nb # 0 /\ ~IsFace(acc.m, nb))
                THEN [m |-> Crash(acc.m), cnt |-> acc.cnt]
                ELSE IF nb # 0 /\ FaceAt(acc.m, nb).used = FALSE
                     THEN LET r == regionGrowing(acc.m, nb, region)
                          IN  [m |-> r.m, cnt |-> counted(acc.cnt, r.cnt)]
                     ELSE acc
    IN  IF m0.ub THEN [m |-> m0, cnt |-> 0]
        ELSE visit(visit(visit([m |-> m0, cnt |-> 0], 0), 1), 2)

\* NormalT::operator*: the dot product; normals have length 8 here, so that the
\* product is 64 times the cosine
dot(a, b) == a[1] * b[1] + a[2] * b[2] + a[3] * b[3]

\* line 567: fabs(getFaceNormal() * normal) > angle, with angle scaled by 64
admitsNeighbour(faceNormal, reference, angle) ==
    (IF dot(faceNormal, reference) < 0 THEN 0 - dot(faceNormal, reference)
     ELSE dot(faceNormal, reference)) > angle

RECURSIVE regionGrowingAngle(_, _, _, _)
\* the thresholded regionGrowing; near holds the faces whose normal n satisfies
\* fabs(n * normal) > angle for the reference normal of the call
regionGrowingAngle(m, start_face, near, region) ==
    LET m0 == regionAddFace(markUsed(m, start_face), region, start_face)
        visit(acc, k) ==
            LET e  == faceEdge(acc.m, start_face, k)
                nb == face(acc.m, pair(acc.m, e))
            IN  IF ~IsEdge(acc.m, e) \/ ~IsEdge(acc.m, pair(acc.m, e))
                   \/ (nb # 0 /\ ~IsFace(acc.m, nb))
                THEN [m |-> Crash(acc.m), cnt |-> acc.cnt]
                ELSE IF nb # 0 /\ FaceAt(acc.m, nb).used = FALSE /\ nb \in near
                     THEN LET r == regionGrowingAngle(acc.m, nb, near, region)
                          IN  [m |-> r.m, cnt |-> counted(acc.cnt, r.cnt)]
                     ELSE acc
    IN  IF m0.ub THEN [m |-> m0, cnt |-> 0]
        ELSE visit(visit(visit([m |-> m0, cnt |-> 0], 0), 1), 2)

\* ~Region(): the faces that refer to the region refer to none afterwards
freeRegion(m, r) ==
    IF ~IsRegion(m, r) THEN Crash(m)
    ELSE [m EXCEPT !.R[r].live = FALSE,
                   !.F = [f \in 1..Len(m.F) |->
                             IF m.F[f].region = r THEN [m.F[f] EXCEPT !.region = 0]
                             ELSE m.F[f]]]

\* Region::regressionPlane(): the region is fit to a plane and flagged in-plane
regressionPlane(m, r) ==
    IF IsRegion(m, r) THEN [m EXCEPT !.R[r].inPlane = TRUE] ELSE Crash(m)

RECURSIVE deleteRegion(_, _)
\* while(! region->m_faces.empty()) deleteFace(region->m_faces.front()); delete region;
deleteRegion(m, region) ==
    IF m.ub THEN m
    ELSE IF ~IsRegion(m, region) THEN Crash(m)
    ELSE IF Len(m.R[region].faces) = 0 THEN freeRegion(m, region)
    ELSE deleteRegion(deleteFace(m, m.R[region].faces[1]), region)

RECURSIVE deleteRegions(_, _, _)
\* for(i ...) deleteRegion(regions[i]);  from position i
deleteRegions(m, regions, i) ==
    IF i > Len(regions) THEN m
    ELSE deleteRegions(deleteRegion(m, regions[i]), regions, i + 1)

\* the markers stay as they are
resetUsedNot(m) == m

\* lines 706-708 (and 600-603): m_used = false on every face of m_faces
resetUsed(m) ==
    [m EXCEPT !.F = [f \in 1..Len(m.F) |->
                        IF Has(m.fs, f) THEN [m.F[f] EXCEPT !.used = FALSE] ELSE m.F[f]]]

\* (int)10*log(n) for the face counts of the model; with no face the value is
\* never compared
TenLog == <<0, 6, 10, 13, 16, 17, 19, 20, 21, 23>>

defaultRegionThreshold(n) == IF n \in 1..Len(TenLog) THEN TenLog[n] ELSE 0

\* a region of small_region_size faces is small too
smallRegionUpTo(region_size, small_region_size) == region_size <= small_region_size

\* line 624: if (region_size < small_region_size)
smallRegion(region_size, small_region_size) == region_size < small_region_size

RECURSIVE segmentFrom(_, _, _, _, _, _)
\* lines 605-640 from position i of m_faces; acc holds the mesh, smallRegions and
\* region_number
segmentFrom(acc, i, normals, fit_size, small_region_size, final) ==
    LET f == acc.m.fs[i]
        region == Len(acc.m.R) + 1
        \* lines 609-613: a region of its own for the unused face f, grown over
        \* the faces whose normal is alike that of f
        grown == regionGrowingAngle(newRegion(acc.m, acc.number), f,
                                    {x \in DOMAIN normals : normals[x] = normals[f]},
                                    region)
        \* lines 616-619: big regions are fit to the regression plane
        fit(g) == IF g.cnt + 1 > fit_size THEN regressionPlane(g.m, region) ELSE g.m
        \* lines 621-638: the region is kept, scheduled for deletion or deleted
        saved(m, region_size) ==
            IF final
            THEN IF smallRegion(region_size, small_region_size)
                 THEN [acc EXCEPT !.m = m, !.small = Append(@, region)]
                 ELSE [acc EXCEPT !.m = [m EXCEPT !.rs = Append(@, region)],
                                  !.number = @ + 1]
            ELSE [acc EXCEPT !.m = freeRegion(m, region)]
        segmented(g) == saved(fit(g), g.cnt + 1)
    IN  IF acc.m.ub \/ i > Len(acc.m.fs) THEN acc
        ELSE IF FaceAt(acc.m, f).used
             THEN segmentFrom(acc, i + 1, normals, fit_size, small_region_size, final)
             ELSE segmentFrom(segmented(grown), i + 1, normals, fit_size,
                              small_region_size, final)

\* the regions of every pass are retained
finalPassAlways(j, iterations) == TRUE

\* line 621: if(j == iterations-1)
finalPass(j, iterations) == j = iterations - 1

RECURSIVE segmentPasses(_, _, _, _, _, _)
\* lines 595-641 from iteration j
segmentPasses(acc, j, iterations, normals, fit_size, small_region_size) ==
    LET \* lines 599-603
        resetPass(x) == [x EXCEPT !.m = resetUsed(x.m)]
    IN  IF acc.m.ub \/ j >= iterations THEN acc
        ELSE segmentPasses(segmentFrom(resetPass(acc), 1, normals, fit_size,
                                       small_region_size, finalPass(j, iterations)),
                           j + 1, iterations, normals, fit_size, small_region_size)

RECURSIVE deleteBack(_, _)
\* lines 665-669
deleteBack(m, flickerer) ==
    IF Len(flickerer) = 0 THEN m
    ELSE deleteBack(deleteFace(m, flickerer[Len(flickerer)]),
                    SubSeq(flickerer, 1, Len(flickerer) - 1))

\* lines 656-670; flicker holds the faces for which detectFlicker answers true
removeFlickering(m, flicker) ==
    LET flickers(f) == f \in flicker
    IN  IF \E i \in 1..Len(m.fs) : ~IsRegion(m, FaceAt(m, m.fs[i]).region)
        THEN Crash(m)
        ELSE deleteBack(m, SelectSeq(m.fs, flickers))

\* normals gives every face the class of its getFaceNormal(): a face passes the
\* angle threshold against the seed of a region when both are of one class
optimizePlanes(m, iterations, normals, min_region_size, small_region_size, remove_flickering, flicker) ==
    LET thr == defaultRegionThreshold(Len(m.fs))
        \* lines 586-593: m_regions.clear() and the locals of the call
        startPasses == [m |-> [m EXCEPT !.rs = <<>>], small |-> <<>>, number |-> 0]
        \* lines 644-654
        deleteSmallRegions(x) ==
            IF small_region_size # 0 THEN deleteRegions(x.m, x.small, 1) ELSE x.m
        \* lines 656-670
        deleteFlickering(x) ==
            IF remove_flickering /\ ~x.ub THEN removeFlickering(x, flicker) ELSE x
    IN  deleteFlickering(deleteSmallRegions(
            segmentPasses(startPasses, 0, iterations, normals,
                          IF min_region_size > thr THEN min_region_size ELSE thr,
                          small_region_size)))

\* if(region_size <= threshold)
isDangling(region_size, threshold) == region_size <= threshold

RECURSIVE danglingFrom(_, _, _)
\* lines 686-700 from position i of m_faces; acc holds the mesh and todelete
danglingFrom(acc, i, threshold) ==
    LET region == Len(acc.m.R) + 1
        \* lines 690-699 for the region grown from the unused face
        sorted(g) ==
            IF isDangling(g.cnt + 1, threshold)
            THEN [m |-> g.m, todelete |-> Append(acc.todelete, region)]
            ELSE [m |-> freeRegion(g.m, region), todelete |-> acc.todelete]
    IN  IF acc.m.ub \/ i > Len(acc.m.fs) THEN acc
        ELSE IF FaceAt(acc.m, acc.m.fs[i]).used
             THEN danglingFrom(acc, i + 1, threshold)
             ELSE danglingFrom(sorted(regionGrowing(newRegion(acc.m, 0), acc.m.fs[i],
                                                    region)),
                               i + 1, threshold)

removeDanglingArtifacts(m, threshold) ==
    LET \* lines 702-703, then lines 706-708
        deleteDangling(found) == resetUsed(deleteRegions(found.m, found.todelete, 1))
    IN  deleteDangling(danglingFrom([m |-> m, todelete |-> <<>>], 1, threshold))

\* ---------------------------------------------------------- safe collapse
\* lines 715-717 (718-720) for the side e
isCap(m, e) ==
    /\ face(m, e) # 0
    /\ face(m, pair(m, next(m, e))) # 0
    /\ face(m, pair(m, next(m, next(m, e)))) # 0
    /\ next(m, next(m, pair(m, next(m, e))))
         = pair(m, next(m, pair(m, next(m, next(m, e)))))

\* lines 723-726
edgeCnt(m, edge) ==
    Cardinality({i \in 1..Len(out(m, start(m, edge))) :
                    end(m, out(m, start(m, edge))[i]) = end(m, edge)})

\* lines 731-732 for the side e
leavesFaceless(m, e) ==
    /\ face(m, e) # 0
    /\ face(m, pair(m, next(m, e))) = 0
    /\ face(m, pair(m, next(m, next(m, e)))) = 0

\* lines 736-739
triangleHole(m, edge) ==
    \E o1 \in 1..Len(out(m, end(m, edge))) :
        LET e1 == out(m, end(m, edge))[o1]
        IN  \E o2 \in 1..Len(out(m, end(m, e1))) :
                LET e2 == out(m, end(m, e1))[o2]
                IN  face(m, e1) = 0 /\ face(m, e2) = 0 /\ end(m, e2) = start(m, edge)

\* the faces a flicker loop asks about, in the order of v->out
flickerFaces(m, edge, v) ==
    LET o == out(m, v)
        F[i \in 0..Len(o)] ==
            IF i = 0 THEN <<>>
            ELSE LET f == face(m, pair(m, o[i]))
                 IN  IF f # face(m, pair(m, edge)) /\ f # 0 THEN Append(F[i - 1], f)
                     ELSE F[i - 1]
    IN  F[Len(o)]

\* the outcome of one flicker loop: "pass", "flicker" or "ub" (the face or its
\* region is null or freed when detectFlicker is called on it)
flickerLoop(m, asked, flick) ==
    LET bad(i) == ~IsFace(m, asked[i]) \/ ~IsRegion(m, FaceAt(m, asked[i]).region)
        hit == {i \in 1..Len(asked) : bad(i) \/ asked[i] \in flick}
        first == CHOOSE i \in hit : \A j \in hit : i <= j
    IN  IF hit = {} THEN "pass" ELSE IF bad(first) THEN "ub" ELSE "flicker"

\* a guard answers, and the call reports a collapse
RejectedAsDone(m, guard) == [m |-> m, ret |-> TRUE, guard |-> guard]

\* return false;
Rejected(m, guard) == [m |-> m, ret |-> FALSE, guard |-> guard]

\* flick1 and flick2 are the faces for which detectFlicker answers true in the
\* first and in the second loop
safeCollapseEdge(m, edge, flick1, flick2) ==
    IF ~IsEdge(m, edge) \/ ~IsEdge(m, pair(m, edge)) THEN Rejected(Crash(m), "ub")
    ELSE IF isCap(m, edge) \/ isCap(m, pair(m, edge)) THEN Rejected(m, "cap")
    ELSE IF edgeCnt(m, edge) # 1 THEN Rejected(m, "duplicate")
    ELSE IF leavesFaceless(m, edge) \/ leavesFaceless(m, pair(m, edge))
         THEN Rejected(m, "faceless")
    ELSE IF triangleHole(m, edge) THEN Rejected(m, "hole")
    ELSE
        LET s == start(m, edge)
            t == end(m, edge)
            origin1 == position(m, s)
            m1 == setPosition(m, s, Midpoint(position(m, s), position(m, t)))
            r1 == flickerLoop(m1, flickerFaces(m1, edge, s), flick1)
            origin2 == position(m1, t)
            m2 == setPosition(m1, t, Midpoint(position(m1, s), position(m1, t)))
            r2 == flickerLoop(m2, flickerFaces(m2, edge, t), flick2)
        IN  IF r1 = "ub" THEN Rejected(Crash(m1), "ub")
            ELSE IF r1 = "flicker" THEN Rejected(setPosition(m1, s, origin1), "flickerStart")
            ELSE IF r2 = "ub" THEN Rejected(Crash(m2), "ub")
            ELSE IF r2 = "flicker" THEN Rejected(setPosition(m2, t, origin2), "flickerEnd")
            ELSE [m |-> collapseEdge(m2, edge), ret |-> TRUE, guard |-> "none"]

\* ------------------------------------------------------------ hole filler
\* a loop that has not finished when its fuel is spent is reported in hang; the
\* fuel is larger than the number of passes a finishing loop can make
Hang(m) == [m EXCEPT !.hang = TRUE]

\* lines 795-802, from position i of current->start->out
RECURSIVE blockWayBack(_, _, _)
blockWayBack(m, current, i) ==
    LET o == out(m, start(m, current))
    IN  IF i > Len(o) THEN m
        ELSE IF end(m, o[i]) = end(m, current)
             THEN blockWayBack(setUsed(setUsed(m, o[i], TRUE), pair(m, o[i]), TRUE),
                               current, i + 1)
             ELSE blockWayBack(m, current, i + 1)

\* the last faceless half-edge leaving v, marked or not
nextToTraceMarked(m, v) ==
    LET o == out(m, v)
        cand == {i \in 1..Len(o) : face(m, o[i]) = 0}
    IN  IF cand = {} THEN 0 ELSE o[MaxOf(cand)]

\* lines 805-814: the last unused faceless half-edge leaving v, or null
nextToTrace(m, v) ==
    LET o == out(m, v)
        cand == {i \in 1..Len(o) : used(m, o[i]) = FALSE /\ face(m, o[i]) = 0}
    IN  IF cand = {} THEN 0 ELSE o[MaxOf(cand)]

RECURSIVE traceContour(_, _, _, _)
\* lines 790-817: the mesh with the used marks and the contour
traceContour(m, current, contour, fuel) ==
    IF current = 0 THEN [m |-> m, contour |-> contour]
    ELSE IF fuel = 0 THEN [m |-> Hang(m), contour |-> contour]
    ELSE IF ~IsEdge(m, current) \/ ~IsVertex(m, start(m, current))
            \/ ~IsVertex(m, end(m, current))
         THEN [m |-> Crash(m), contour |-> contour]
    ELSE LET m1 == setUsed(blockWayBack(m, current, 1), current, TRUE)
         IN  traceContour(m1, nextToTrace(m1, end(m1, current)),
                          Append(contour, current), fuel - 1)

\* a contour of max_size half-edges is kept too
keepContourUpTo(contour, max_size) == 2 < Len(contour) /\ Len(contour) <= max_size

\* line 818: a loop is kept if its length is strictly between 2 and max_size
keepContour(contour, max_size) == 2 < Len(contour) /\ Len(contour) < max_size

RECURSIVE findHoles(_, _, _, _, _)
\* lines 778-824 from face position i and edge k: the mesh and the holes found
findHoles(m, holes, max_size, i, k) ==
    IF i > Len(m.fs) THEN [m |-> m, holes |-> holes]
    ELSE IF k > 2 THEN findHoles(m, holes, max_size, i + 1, 0)
    ELSE LET current == pair(m, faceEdge(m, m.fs[i], k))
         IN  IF ~IsEdge(m, faceEdge(m, m.fs[i], k)) \/ ~IsEdge(m, current)
             THEN [m |-> Crash(m), holes |-> holes]
             ELSE IF used(m, current) = FALSE /\ face(m, current) = 0
             THEN LET t == traceContour(m, current, <<>>, Len(m.E) + 1)
                  IN  findHoles(t.m,
                                IF keepContour(t.contour, max_size)
                                THEN Append(holes, t.contour) ELSE holes,
                                max_size, i, k + 1)
             ELSE findHoles(m, holes, max_size, i, k + 1)

RemoveAt(s, i) == SubSeq(s, 1, i - 1) \o SubSeq(s, i + 1, Len(s))

RECURSIVE collapseOne(_, _, _, _, _)
\* lines 836-841: one pass of the for loop, from position e
collapseOne(m, hole, e, flick1, flick2) ==
    LET tried(r) ==
            IF r.ret
            THEN [m |-> r.m, hole |-> RemoveAt(hole, e), collapsedSomething |-> TRUE]
            ELSE collapseOne(r.m, hole, e + 1, flick1, flick2)
    IN  IF e > Len(hole) THEN [m |-> m, hole |-> hole, collapsedSomething |-> FALSE]
        ELSE tried(safeCollapseEdge(m, hole[e], flick1, flick2))

RECURSIVE collapseHole(_, _, _, _, _)
\* lines 832-842
collapseHole(m, hole, flick1, flick2, fuel) ==
    LET passed(r) ==
            IF r.collapsedSomething /\ ~r.m.ub
            THEN collapseHole(r.m, r.hole, flick1, flick2, fuel - 1)
            ELSE [m |-> r.m, hole |-> r.hole]
    IN  IF fuel = 0 THEN [m |-> Hang(m), hole |-> hole]
        ELSE passed(collapseOne(m, hole, 1, flick1, flick2))

\* no 3-cycle is ever found
closingNever(m, hole) == <<0, 0>>

\* lines 848-852: the first (i, j) in loop order that closes a 3-cycle with back
closing(m, hole) ==
    LET back == hole[Len(hole)]
        n == Len(hole)
        ok == {p \in (1..n) \X (1..n) :
                  /\ end(m, back) = start(m, hole[p[1]])
                  /\ end(m, hole[p[1]]) = start(m, hole[p[2]])
                  /\ end(m, hole[p[2]]) = start(m, back)}
    IN  IF ok = {} THEN <<0, 0>>
        ELSE CHOOSE p \in ok : \A q \in ok : p[1] < q[1] \/ (p[1] = q[1] /\ p[2] <= q[2])

\* lines 859-863 for e: (*f)[e]->face = f; current_hole.erase(find(..., (*f)[e]))
claimEdge(acc, f, e) ==
    LET x == faceEdge(acc.m, f, e)
    IN  IF Has(acc.hole, x)
        THEN [m |-> setFace(acc.m, x, f), hole |-> Erase(acc.hole, x)]
        ELSE [m |-> Crash(setFace(acc.m, x, f)), hole |-> acc.hole]

\* lines 854-866
closeTriangle(m, hole, i, j) ==
    LET f    == Len(m.F) + 1
        back == hole[Len(hole)]
        m1 == [m EXCEPT !.F = Append(@, [NewFace EXCEPT !.edge = back])]
        m2 == setNext(m1, back, hole[i])
        m3 == setNext(m2, hole[i], hole[j])
        m4 == setNext(m3, hole[j], back)
        \* the neighbour across the first half-edge of the new face
        nb(x) == face(x, pair(x, faceEdge(x, f, 0)))
        \* lines 864-865: the new face joins the region of that neighbour
        joined(x) ==
            IF IsFace(x, nb(x)) THEN regionAddFace(x, FaceAt(x, nb(x)).region, f)
            ELSE Crash(x)
        listed(a) == [m |-> [joined(a.m) EXCEPT !.fs = Append(@, f)], hole |-> a.hole]
    IN  listed(claimEdge(claimEdge(claimEdge([m |-> m4, hole |-> hole], f, 0), f, 1), f, 2))

RECURSIVE addFaces(_, _, _)
\* lines 845-870
addFaces(m, hole, fuel) ==
    LET closed(r) == addFaces(r.m, r.hole, fuel - 1)
        found(p) ==
            IF p # <<0, 0>>
            THEN closed(closeTriangle(m, hole, p[1], p[2]))
            ELSE addFaces(m, SubSeq(hole, 1, Len(hole) - 1), fuel - 1)
    IN  IF Len(hole) = 0 \/ m.ub THEN m
        ELSE IF fuel = 0 THEN Hang(m)
        ELSE IF \E x \in Range(hole) : ~IsEdge(m, x) THEN Crash(m)
        ELSE found(closing(m, hole))

RECURSIVE closeHoles(_, _, _, _, _)
\* lines 827-871, from hole h
closeHoles(m, holes, h, flick1, flick2) ==
    LET shrunk(c) ==
            closeHoles(addFaces(c.m, c.hole, Len(c.hole) + 1), holes, h + 1,
                       flick1, flick2)
    IN  IF h > Len(holes) \/ m.ub THEN m
        ELSE shrunk(collapseHole(m, holes[h], flick1, flick2, Len(holes[h]) + 1))

fillHoles(m, max_size, flick1, flick2) ==
    LET closeFound(found) == closeHoles(found.m, found.holes, 1, flick1, flick2)
    IN  closeFound(findHoles(m, <<>>, max_size, 1, 0))

\* --------------------------------------------------------------- finalizer
Neg(n) == <<0 - n[1], 0 - n[2], 0 - n[3]>>

\* the three half-edges of f are live, so that (*f)(k) reads no freed half-edge
faceReadable(m, f) ==
    IsFace(m, f) /\ \A k \in 0..2 : IsEdge(m, faceEdge(m, f, k))

\* index_map[v]: operator[] answers 0 for a key that was never entered
indexOf(m, v) == IF Has(m.vs, v) THEN IndexOf(m.vs, v) - 1 ELSE 0

\* lines 1011-1082: the buffers finalize fills; reading a face through a freed
\* half-edge, or colouring a vertex that the buffer does not hold, is undefined
finalize(m) ==
    [nVertices    |-> Len(m.vs),
     nFaces       |-> Len(m.fs),
     normalBuffer |-> [i \in 1..Len(m.vs) |-> Neg(normal(m, m.vs[i]))],
     indexBuffer  |-> [i \in 1..Len(m.fs) |->
                          [k \in 1..3 |-> indexOf(m, faceVertex(m, m.fs[i], k - 1))]],
     ub           |-> \/ \E i \in 1..Len(m.fs) : ~faceReadable(m, m.fs[i])
                      \/ Len(m.fs) > 0 /\ Len(m.vs) = 0]

\* sizeof(float), sizeof(unsigned int)
SizeofFloat == 4

\* lines 1104-1106: used = false on the half-edges of every face
resetFaceEdges(m) ==
    IF \E i \in 1..Len(m.fs) : ~faceReadable(m, m.fs[i]) THEN Crash(m)
    ELSE [m EXCEPT !.E = [e \in 1..Len(m.E) |->
                             IF \E i \in 1..Len(m.fs), k \in 0..2 :
                                   faceEdge(m, m.fs[i], k) = e
                             THEN [m.E[e] EXCEPT !.used = FALSE] ELSE m.E[e]]]

\* nUsed / buffer_size >= 0.75 with the integer division of the code
growsAt(nUsed, buffer_size) == nUsed \div buffer_size >= 1

\* lines 1124-1134: the realloc of m_normalBuffer is handed to
\* m_textureCoordBuffer, so both share or lose their storage
growVnc(b, nVertices) ==
    IF b.vnc_buffer_size = 0 THEN [b EXCEPT !.ub = TRUE]
    ELSE IF growsAt(b.nPointsUsed, b.vnc_buffer_size)
    THEN [b EXCEPT !.vnc_reallocate = @ + 1,
                   !.vnc_buffer_size = 3 * nVertices * (b.vnc_reallocate + 1) * SizeofFloat,
                   !.vncGrown = Append(@, TRUE),
                   !.ub = TRUE]
    ELSE [b EXCEPT !.vncGrown = Append(@, FALSE)]

\* lines 1137-1143
growIndex(b, nFaces) ==
    IF b.index_buffer_size = 0 THEN [b EXCEPT !.ub = TRUE]
    ELSE IF growsAt(b.nIndizesUsed, b.index_buffer_size)
    THEN [b EXCEPT !.index_reallocate = @ + 1,
                   !.index_buffer_size = 3 * nFaces * (b.index_reallocate + 1),
                   !.indexCap = (3 * nFaces * (b.index_reallocate + 1)) \div SizeofFloat,
                   !.indexGrown = Append(@, TRUE)]
    ELSE [b EXCEPT !.indexGrown = Append(@, FALSE)]

\* lines 1153-1175 for corner k of face f: the stored normal goes to the buffer
emitVertex(b, m, f, k) ==
    IF b.nPointsUsed + 3 > b.vncCap \/ b.nIndizesUsed + k + 1 > b.indexCap
       \/ ~IsVertex(m, faceVertex(m, f, k))
    THEN [b EXCEPT !.ub = TRUE]
    ELSE [b EXCEPT !.plain = Append(@, [face |-> f, vertex |-> faceVertex(m, f, k),
                                        normal |-> normal(m, faceVertex(m, f, k))]),
                   !.nPointsUsed = @ + 3]

\* lines 1151-1178 for face f of a region that is not in-plane
emitFace(b, m, f) ==
    IF ~faceReadable(m, f) THEN [b EXCEPT !.ub = TRUE]
    ELSE [emitVertex(emitVertex(emitVertex(b, m, f, 0), m, f, 1), m, f, 2)
             EXCEPT !.nIndizesUsed = @ + 3]

RECURSIVE emitFaces(_, _, _, _)
\* lines 1151-1178 from position j of the region's faces
emitFaces(b, m, faces, j) ==
    IF b.ub \/ j > Len(faces) THEN b
    ELSE emitFaces(emitFace(b, m, faces[j]), m, faces, j + 1)

\* lines 1180-1228: what the tesselator hands back is copied after the points
\* in use; t holds its coordinatesLength and indexLength
emitTesselated(b, t) ==
    IF t.indexLength > 0 /\ t.coordinatesLength > 0
    THEN IF b.nPointsUsed + t.coordinatesLength > b.vncCap
            \/ b.nIndizesUsed + t.indexLength > b.indexCap
         THEN [b EXCEPT !.nTextures = @ + 1, !.ub = TRUE]
         ELSE [b EXCEPT !.nTextures = @ + 1,
                        !.nPointsUsed = @ + t.coordinatesLength,
                        !.nIndizesUsed = @ + t.indexLength]
    ELSE [b EXCEPT !.nTextures = @ + 1]

\* the fill of the buffers when the loop reaches a region
atStart(b) ==
    [b EXCEPT !.starts = Append(@, [nPointsUsed |-> b.nPointsUsed,
                                    vnc_buffer_size |-> b.vnc_buffer_size,
                                    nIndizesUsed |-> b.nIndizesUsed,
                                    index_buffer_size |-> b.index_buffer_size])]

\* lines 1144-1228 for region r, after the growth checks
emitRegion(b, m, r, t) ==
    IF b.ub THEN b
    ELSE IF ~IsRegion(m, r) THEN [b EXCEPT !.ub = TRUE]
    ELSE IF ~m.R[r].inPlane THEN emitFaces(b, m, m.R[r].faces, 1)
    ELSE emitTesselated(b, t)

RECURSIVE emitRegions(_, _, _, _)
\* lines 1121-1229 from position i of m_regions
emitRegions(b, m, i, t) ==
    IF b.ub \/ i > Len(m.rs) THEN b
    ELSE emitRegions(emitRegion(growIndex(growVnc(atStart(b), Len(m.vs)), Len(m.fs)),
                                m, m.rs[i], t),
                     m, i + 1, t)

\* lines 1090-1101 and 1108-1109
startBuffers(m) ==
    [nPointsUsed |-> 0, nIndizesUsed |-> 0, vnc_reallocate |-> 1, index_reallocate |-> 1,
     vnc_buffer_size   |-> 3 * Len(m.vs) * 1 * SizeofFloat,
     index_buffer_size |-> 3 * Len(m.vs) * 1 * SizeofFloat,
     vncCap   |-> 3 * Len(m.vs) * 1 * SizeofFloat,
     indexCap |-> 3 * Len(m.vs) * 1 * SizeofFloat,
     starts |-> <<>>, vncGrown |-> <<>>, indexGrown |-> <<>>, plain |-> <<>>,
     nTextures |-> 0, ub |-> m.ub]

\* the buffers of finalizeAndRetesselate for the mesh with its marks reset
retesselate(m, t) == emitRegions(startBuffers(m), m, 1, t)

\* the mesh afterwards and the buffers
finalizeAndRetesselate(m, t) ==
    [m |-> [resetFaceEdges(m) EXCEPT !.ub = retesselate(resetFaceEdges(m), t).ub],
     out |-> retesselate(resetFaceEdges(m), t)]

\* ------------------------------------------------- the graph invariants
PairingHolds(m) ==
    \A e \in 1..Len(m.E) :
        m.E[e].live =>
            /\ IsEdge(m, pair(m, e))
            /\ pair(m, pair(m, e)) = e
            /\ start(m, pair(m, e)) = end(m, e)
            /\ end(m, pair(m, e)) = start(m, e)

FaceCycleHolds(m) ==
    \A i \in 1..Len(m.fs) :
        LET f == m.fs[i]
        IN  /\ IsFace(m, f)
            /\ IsEdge(m, faceEdge(m, f, 0))
            /\ IsEdge(m, faceEdge(m, f, 1))
            /\ IsEdge(m, faceEdge(m, f, 2))
            /\ next(m, faceEdge(m, f, 2)) = faceEdge(m, f, 0)
            /\ \A k \in 0..2 : face(m, faceEdge(m, f, k)) = f

\* every live half-edge is listed once by its start and once by its end, and the
\* lists hold nothing else
AdjacencyHolds(m) ==
    /\ \A e \in 1..Len(m.E) :
          m.E[e].live =>
              /\ IsVertex(m, start(m, e)) /\ Has(m.vs, start(m, e))
              /\ IsVertex(m, end(m, e)) /\ Has(m.vs, end(m, e))
              /\ Count(out(m, start(m, e)), e) = 1
              /\ Count(in(m, end(m, e)), e) = 1
    /\ \A i \in 1..Len(m.vs) :
          /\ IsVertex(m, m.vs[i])
          /\ \A j \in 1..Len(out(m, m.vs[i])) :
                IsEdge(m, out(m, m.vs[i])[j]) /\ start(m, out(m, m.vs[i])[j]) = m.vs[i]
          /\ \A j \in 1..Len(in(m, m.vs[i])) :
                IsEdge(m, in(m, m.vs[i])[j]) /\ end(m, in(m, m.vs[i])[j]) = m.vs[i]

Valid(m) == ~m.ub /\ PairingHolds(m) /\ FaceCycleHolds(m) /\ AdjacencyHolds(m)

Sides(m, e) == Cardinality({face(m, e), face(m, pair(m, e))} \ {0})

\* ------------------------------------------------------------ the state
Update(m) ==
    /\ m_vertices' = m.vs
    /\ m_faces' = m.fs
    /\ m_regions' = m.rs
    /\ m_globalIndex' = m.gi
    /\ vertexHeap' = m.V
    /\ edgeHeap' = m.E
    /\ faceHeap' = m.F
    /\ regionHeap' = m.R
    /\ ub' = m.ub
    /\ hang' = m.hang

\* the call just made: operation, arguments, value returned, the guard of
\* safeCollapseEdge that rejected, and what the call found before it ran
Call(op, args, ret, guard, info) ==
    [op |-> op, args |-> args, ret |-> ret, guard |-> guard, info |-> info]

NoCall == Call("none", <<>>, TRUE, "none", <<>>)

Init ==
    /\ m_vertices = <<>>
    /\ m_faces = <<>>
    /\ m_regions = <<>>
    /\ m_globalIndex = 0
    /\ vertexHeap = <<>>
    /\ edgeHeap = <<>>
    /\ faceHeap = <<>>
    /\ regionHeap = <<>>
    /\ ub = FALSE
    /\ hang = FALSE
    /\ soup = <<>>
    /\ calls = 0
    /\ last = NoCall
    /\ m_chunkAmount = [x |-> 0, y |-> 0, z |-> 0]

Did(m, call) ==
    /\ Update(m)
    /\ last' = call
    /\ UNCHANGED m_chunkAmount

Indices == 0..(Len(m_vertices) - 1)

\* index triples with three distinct vertices, written from the smallest index
Triples == {t \in Indices \X Indices \X Indices :
                t[1] < t[2] /\ t[1] < t[3] /\ t[2] # t[3]}

LiveEdges == {e \in 1..Len(edgeHeap) : edgeHeap[e].live}

LiveFaces == {f \in 1..Len(faceHeap) : faceHeap[f].live}

AddVertex(limit) ==
    /\ ~ub
    /\ Len(vertexHeap) < limit
    /\ Did(addVertex(Mesh, PosOf(Len(vertexHeap) + 1)),
           Call("addVertex", <<>>, TRUE, "none", <<>>))
    /\ UNCHANGED <<soup, calls>>

AddTriangle(limit) ==
    /\ ~ub
    /\ Len(faceHeap) < limit
    /\ \E t \in Triples :
          /\ Did(addTriangle(Mesh, t[1], t[2], t[3]),
                 Call("addTriangle", t, TRUE, "none", <<>>))
          /\ soup' = Append(soup, <<m_vertices[t[1] + 1], m_vertices[t[2] + 1],
                                    m_vertices[t[3] + 1]>>)
    /\ UNCHANGED calls

\* a->b is free: no live half-edge from vertex index a to vertex index b has a face
FreeDirection(a, b) ==
    \A e \in LiveEdges :
        (edgeHeap[e].start = m_vertices[a + 1] /\ edgeHeap[e].end = m_vertices[b + 1])
            => edgeHeap[e].face = 0

\* the triangle keeps the input consistently wound and manifold
Consistent(t) ==
    FreeDirection(t[1], t[2]) /\ FreeDirection(t[2], t[3]) /\ FreeDirection(t[3], t[1])

\* the triangles fed to the mesh where collapses are studied: a fan of three
\* triangles around vertex 0, or the split square with a flap on its corners 1, 3
CollapseSoup == {<<0, 1, 2>>, <<0, 2, 3>>, <<0, 3, 1>>, <<1, 3, 4>>}

AddSoupTriangle(limit) ==
    /\ ~ub
    /\ Len(faceHeap) < limit
    /\ \E t \in Triples \cap CollapseSoup :
          /\ Consistent(t)
          /\ Did(addTriangle(Mesh, t[1], t[2], t[3]),
                 Call("addTriangle", t, TRUE, "none", <<>>))
          /\ soup' = Append(soup, <<m_vertices[t[1] + 1], m_vertices[t[2] + 1],
                                    m_vertices[t[3] + 1]>>)
    /\ UNCHANGED calls

AddConsistentTriangle(limit) ==
    /\ ~ub
    /\ Len(faceHeap) < limit
    /\ \E t \in Triples :
          /\ Consistent(t)
          /\ Did(addTriangle(Mesh, t[1], t[2], t[3]),
                 Call("addTriangle", t, TRUE, "none", <<>>))
          /\ soup' = Append(soup, <<m_vertices[t[1] + 1], m_vertices[t[2] + 1],
                                    m_vertices[t[3] + 1]>>)
    /\ UNCHANGED calls

AddFace(limit) ==
    /\ ~ub
    /\ Len(faceHeap) < limit
    /\ \E t \in Triples :
          /\ Did(addFace(Mesh, m_vertices[t[1] + 1], m_vertices[t[2] + 1],
                         m_vertices[t[3] + 1]),
                 Call("addFace", t, TRUE, "none", <<>>))
          /\ soup' = Append(soup, <<m_vertices[t[1] + 1], m_vertices[t[2] + 1],
                                    m_vertices[t[3] + 1]>>)
    /\ UNCHANGED calls

DeleteEdge(limit) ==
    /\ ~ub
    /\ calls < limit
    /\ calls' = calls + 1
    /\ \E e \in LiveEdges, deletePair \in BOOLEAN :
          Did(deleteEdge(Mesh, e, deletePair),
              Call("deleteEdge", <<e, deletePair>>, TRUE, "none", <<>>))
    /\ UNCHANGED soup

DeleteFace ==
    /\ ~ub
    /\ \E i \in 1..Len(m_faces) :
          Did(deleteFace(Mesh, m_faces[i]),
              Call("deleteFace", <<m_faces[i]>>, TRUE, "none", <<>>))
    /\ UNCHANGED <<soup, calls>>

CollapseEdge(limit) ==
    /\ ~ub
    /\ calls < limit
    /\ calls' = calls + 1
    /\ \E e \in LiveEdges :
          Did(collapseEdge(Mesh, e),
              Call("collapseEdge", <<e>>, TRUE, "none",
                   [valid |-> Valid(Mesh), sides |-> Sides(Mesh, e),
                    loop |-> start(Mesh, e) = end(Mesh, e)]))
    /\ UNCHANGED soup

\* what a flip of e finds: the quad A, B, C, D around e = A->B, its four outer
\* half-edges, and the two half-edges the flip allocates
Quad(m, e) ==
    [corners |-> <<start(m, e), end(m, e), end(m, next(m, e)),
                   end(m, next(m, pair(m, e)))>>,
     outer |-> {next(m, e), next(m, next(m, e)),
                next(m, pair(m, e)), next(m, next(m, pair(m, e)))},
     made |-> IF face(m, e) # 0 /\ face(m, pair(m, e)) # 0
              THEN {Len(m.E) + 1, Len(m.E) + 2} ELSE {},
     faces |-> m.fs,
     valid |-> Valid(m)]

NoQuad == [corners |-> <<>>, outer |-> {}, made |-> {}, faces |-> <<>>, valid |-> FALSE]

\* the quad the flip before this one found, if this flip is of the edge it made
Flipped(e) ==
    IF last.op = "flipEdge" /\ e \in last.info.quad.made THEN last.info.quad ELSE NoQuad

FlipEdge(limit) ==
    /\ ~ub
    /\ Len(edgeHeap) + 2 <= limit
    /\ \E e \in LiveEdges :
          Did(flipEdge(Mesh, e),
              Call("flipEdge", <<e>>, TRUE, "none",
                   [quad |-> Quad(Mesh, e), before |-> Flipped(e)]))
    /\ UNCHANGED <<soup, calls>>

FlipEdgeOfFaces(limit) ==
    /\ ~ub
    /\ Len(edgeHeap) + 2 <= limit
    /\ \E f1, f2 \in LiveFaces :
          Did(flipEdgeOfFaces(Mesh, f1, f2),
              Call("flipEdgeOfFaces", <<f1, f2>>, TRUE, "none",
                   [apart |-> ~\E e \in LiveEdges :
                                  face(Mesh, e) = f1 /\ face(Mesh, pair(Mesh, e)) = f2,
                    valid |-> Valid(Mesh)]))
    /\ UNCHANGED <<soup, calls>>

\* a caller segments from an unvisited face into a region of its own
RegionGrowing ==
    /\ ~ub
    /\ Len(regionHeap) < MaxRegions
    /\ \E i \in 1..Len(m_faces) :
          /\ faceHeap[m_faces[i]].used = FALSE
          /\ LET r == regionGrowing(newRegion(Mesh, 0), m_faces[i], Len(regionHeap) + 1)
             IN  Did(r.m, Call("regionGrowing", <<m_faces[i], Len(regionHeap) + 1>>,
                               r.cnt, "none",
                               \A f \in LiveFaces : faceHeap[f].used = FALSE))
    /\ UNCHANGED <<soup, calls>>

ResetUsed ==
    /\ ~ub
    /\ \E f \in LiveFaces : faceHeap[f].used
    /\ Did(resetUsed(Mesh), Call("resetUsed", <<>>, TRUE, "none", <<>>))
    /\ UNCHANGED <<soup, calls>>

\* the normals of the faces: along the reference normal, against it, across it
FaceNormals == {<<0, 0, 8>>, <<0, 0, -8>>, <<8, 0, 0>>}

ReferenceNormals == {<<0, 0, 8>>}

\* the cosine bounds a caller passes, scaled by 64
Angles == {0, 54}

\* a caller grows a region from an unvisited face under a cosine bound
RegionGrowingAngle(limit) ==
    /\ ~ub
    /\ calls < limit
    /\ calls' = calls + 1
    /\ \E i \in 1..Len(m_faces), normals \in [LiveFaces -> FaceNormals],
          reference \in ReferenceNormals, angle \in Angles :
          /\ faceHeap[m_faces[i]].used = FALSE
          /\ LET near == {f \in LiveFaces : admitsNeighbour(normals[f], reference, angle)}
                 r == regionGrowingAngle(newRegion(Mesh, 0), m_faces[i], near,
                                         Len(regionHeap) + 1)
             IN  Did(r.m, Call("regionGrowingAngle",
                               <<m_faces[i], normals, reference, angle, Len(regionHeap) + 1>>,
                               r.cnt, "none", <<>>))
    /\ UNCHANGED soup

\* the answers of detectFlicker in one call: false for every face, or true for
\* every face in the first loop only, or in the second loop only
Flickers == {<<{}, {}>>, <<LiveFaces, {}>>, <<{}, LiveFaces>>}

SafeCollapseEdge(limit) ==
    /\ ~ub
    /\ calls < limit
    /\ calls' = calls + 1
    /\ \E e \in LiveEdges, fl \in Flickers :
          LET r == safeCollapseEdge(Mesh, e, fl[1], fl[2])
          IN  Did(r.m, Call("safeCollapseEdge", <<e>>, r.ret, r.guard, <<>>))
    /\ UNCHANGED soup

\* the faceless half-edges of the mesh
Boundary == {e \in LiveEdges : edgeHeap[e].face = 0}

\* the boundary half-edges that leave the end of e
After(e) == {x \in Boundary : edgeHeap[x].start = edgeHeap[e].end}

\* the boundary half-edges passed in k steps from e along the boundary
RECURSIVE Walk(_, _)
Walk(e, k) == IF k = 0 THEN {e} ELSE {e} \cup Walk(CHOOSE x \in After(e) : TRUE, k - 1)

\* the mesh has one hole only, a simple ring of n boundary half-edges: every ring
\* vertex is left and entered by one boundary half-edge and one walk passes all
RingHole(n) ==
    /\ Cardinality(Boundary) = n
    /\ \A e \in Boundary :
          /\ edgeHeap[e].start # edgeHeap[e].end
          /\ Cardinality(After(e)) = 1
          /\ Cardinality({x \in Boundary : edgeHeap[x].end = edgeHeap[e].start}) = 1
    /\ \A e \in Boundary : Walk(e, n - 1) = Boundary

\* fillHoles can run: the mesh is valid, every face belongs to a region and no
\* half-edge carries the marker of an earlier contour trace
Fillable ==
    /\ Valid(Mesh)
    /\ \A f \in LiveFaces : IsRegion(Mesh, faceHeap[f].region)
    /\ \A e \in LiveEdges : ~edgeHeap[e].used

Sizes == 3..MaxHole

\* the lengths of the loops that fillHoles(max_size) keeps for closing
Kept(max_size) ==
    LET holes == findHoles(Mesh, <<>>, max_size, 1, 0).holes
    IN  [h \in 1..Len(holes) |-> Len(holes[h])]

\* the answers of detectFlicker during fillHoles: nowhere or everywhere
FillFlickers == {<<{}, {}>>, <<LiveFaces, LiveFaces>>}

FillHoles ==
    /\ ~ub
    /\ calls < MaxCalls
    /\ calls' = calls + 1
    /\ m_faces # <<>>
    /\ \E max_size \in Sizes, fl \in FillFlickers :
          Did(fillHoles(Mesh, max_size, fl[1], fl[2]),
              Call("fillHoles", <<max_size>>, TRUE, "none",
                   [fillable |-> Fillable,
                    ring |-> IF \E n \in 3..MaxHole : RingHole(n)
                             THEN Cardinality(Boundary) ELSE 0,
                    kept |-> Kept(max_size)]))
    /\ UNCHANGED soup

\* the faces of the call are given normals of two kinds
NormalClasses == 0..1

\* the flicker removal of optimizePlanes: off, or on with the faces for which
\* detectFlicker answers true
FlickerRemoval == {<<FALSE, {}>>, <<TRUE, {}>>} \cup {<<TRUE, {f}>> : f \in LiveFaces}

\* the iteration counts and size thresholds optimizePlanes is called with
PlaneInputs ==
    [iterations : 0..MaxIterations, min_region_size : {0, MaxFaces},
     small_region_size : 0..MaxThreshold]

\* one pass that fits no plane and deletes no region
PlainPass == {[iterations |-> 1, min_region_size |-> MaxFaces, small_region_size |-> 0]}

\* every way the normals of the faces can be alike
AnyNormals == [LiveFaces -> NormalClasses]

\* the normals of the faces are alike, but for one face at most
OddNormals == {[f \in LiveFaces |-> IF f = g THEN 1 ELSE 0] : g \in LiveFaces \cup {0}}

\* the calls repeated on one mesh: any iteration count, regions of up to one
\* face deleted or none
RepeatInputs ==
    [iterations : 0..MaxIterations, min_region_size : {MaxFaces}, small_region_size : {0, 2}]

\* one pass without deletions, with plane fitting or without
ExportPass ==
    [iterations : {1}, min_region_size : {0, MaxFaces}, small_region_size : {0}]

OptimizePlanes(limit, inputs, kinds, removals) ==
    /\ ~ub
    /\ calls < limit
    /\ calls' = calls + 1
    /\ m_faces # <<>>
    /\ \E given \in inputs, normals \in kinds, fl \in removals :
          Did(optimizePlanes(Mesh, given.iterations, normals, given.min_region_size,
                             given.small_region_size, fl[1], fl[2]),
              Call("optimizePlanes",
                   <<given.iterations, normals, given.min_region_size, given.small_region_size,
                     fl[1], fl[2]>>,
                   TRUE, "none", <<>>))
    /\ UNCHANGED soup

\* a caller hands deleteRegion a region of the region list
DeleteRegion(limit) ==
    /\ ~ub
    /\ calls < limit
    /\ calls' = calls + 1
    /\ \E i \in 1..Len(m_regions) :
          Did(deleteRegion(Mesh, m_regions[i]),
              Call("deleteRegion", <<m_regions[i]>>, TRUE, "none",
                   [faces |-> RegionAt(Mesh, m_regions[i]).faces]))
    /\ UNCHANGED soup

RemoveDanglingArtifacts(limit) ==
    /\ ~ub
    /\ calls < limit
    /\ calls' = calls + 1
    /\ \E threshold \in 0..MaxThreshold :
          Did(removeDanglingArtifacts(Mesh, threshold),
              Call("removeDanglingArtifacts", <<threshold>>, TRUE, "none",
                   \A f \in LiveFaces : faceHeap[f].used = FALSE))
    /\ UNCHANGED soup

\* a caller deletes a vertex that no half-edge refers to
DeleteVertex(limit) ==
    /\ ~ub
    /\ calls < limit
    /\ calls' = calls + 1
    /\ \E i \in 1..Len(m_vertices) :
          /\ out(Mesh, m_vertices[i]) = <<>>
          /\ in(Mesh, m_vertices[i]) = <<>>
          /\ Did(deleteVertex(Mesh, m_vertices[i]),
                 Call("deleteVertex", <<m_vertices[i]>>, TRUE, "none", <<>>))
    /\ UNCHANGED soup

\* the normals handed to addNormal
Normals == {<<0, 0, 64>>}

\* the caller gives the vertex it has just added its normal
AddNormal ==
    /\ ~ub
    /\ m_vertices # <<>>
    /\ normal(Mesh, m_vertices[Len(m_vertices)]) = <<0, 0, 0>>
    /\ \E n \in Normals :
          Did(addNormal(Mesh, n), Call("addNormal", <<n>>, TRUE, "none", <<>>))
    /\ UNCHANGED <<soup, calls>>

Finalize ==
    /\ ~ub
    /\ last.op # "finalize"
    /\ Did([Mesh EXCEPT !.ub = finalize(Mesh).ub],
           Call("finalize", <<>>, finalize(Mesh), "none", <<>>))
    /\ UNCHANGED <<soup, calls>>

\* what the tesselator hands back for an in-plane region: nothing, one triangle
\* or three
Tesselations == {[coordinatesLength |-> 0, indexLength |-> 0],
                 [coordinatesLength |-> 9, indexLength |-> 3],
                 [coordinatesLength |-> 27, indexLength |-> 9]}

FinalizeAndRetesselate ==
    /\ ~ub
    /\ calls < MaxCalls
    /\ calls' = calls + 1
    /\ \E t \in Tesselations :
          Did(finalizeAndRetesselate(Mesh, t).m,
              Call("finalizeAndRetesselate", <<t>>, finalizeAndRetesselate(Mesh, t).out,
                   "none", <<>>))
    /\ UNCHANGED soup

\* the triangles of a double pyramid over the triangle 0, 1, 2 with the apexes
\* 3 and 4, in the order they are fed to the mesh
Bipyramid == << <<0, 1, 3>>, <<1, 2, 3>>, <<2, 0, 3>>, <<1, 0, 4>>, <<2, 1, 4>>, <<0, 2, 4>> >>

AddBipyramidTriangle ==
    /\ ~ub
    /\ Len(soup) < Len(Bipyramid)
    /\ LET t == Bipyramid[Len(soup) + 1]
       IN  /\ \A k \in 1..3 : t[k] < Len(m_vertices)
           /\ Did(addTriangle(Mesh, t[1], t[2], t[3]),
                  Call("addTriangle", t, TRUE, "none", <<>>))
           /\ soup' = Append(soup, <<m_vertices[t[1] + 1], m_vertices[t[2] + 1],
                                     m_vertices[t[3] + 1]>>)
    /\ UNCHANGED calls

\* the triangles of a double pyramid over the pentagon 0..4 with the apexes 5
\* and 6, in the order they are fed to the mesh
Dipyramid == << <<0, 1, 5>>, <<1, 2, 5>>, <<2, 3, 5>>, <<3, 4, 5>>, <<4, 0, 5>>,
                <<1, 0, 6>>, <<2, 1, 6>>, <<3, 2, 6>>, <<4, 3, 6>>, <<0, 4, 6>> >>

AddDipyramidTriangle ==
    /\ ~ub
    /\ Len(soup) < Len(Dipyramid)
    /\ LET t == Dipyramid[Len(soup) + 1]
       IN  /\ \A k \in 1..3 : t[k] < Len(m_vertices)
           /\ Did(addTriangle(Mesh, t[1], t[2], t[3]),
                  Call("addTriangle", t, TRUE, "none", <<>>))
           /\ soup' = Append(soup, <<m_vertices[t[1] + 1], m_vertices[t[2] + 1],
                                     m_vertices[t[3] + 1]>>)
    /\ UNCHANGED calls

\* any sequence of builder and editor calls
Next ==
    \/ AddVertex(MaxVertices)
    \/ AddTriangle(EditFaces)
    \/ DeleteFace
    \/ CollapseEdge(MaxCalls)
    \/ FlipEdge(EditEdges)

Spec == Init /\ [][Next]_vars

\* any sequence of builder and editor calls, and the export of the mesh
NextFinal ==
    \/ AddVertex(MaxVertices)
    \/ AddTriangle(EditFaces)
    \/ DeleteFace
    \/ CollapseEdge(MaxCalls)
    \/ FlipEdge(EditEdges)
    \/ Finalize

SpecFinal == Init /\ [][NextFinal]_vars

\* any triangle list
NextBuild == AddVertex(MaxVertices) \/ AddTriangle(MaxFaces)

SpecBuild == Init /\ [][NextBuild]_vars

\* a consistently wound manifold triangle list
NextWound == AddVertex(GrowVertices) \/ AddConsistentTriangle(MaxFaces)

SpecWound == Init /\ [][NextWound]_vars

\* a consistently wound manifold triangle list whose faces are deleted again
NextUnbuild == AddVertex(MaxVertices) \/ AddConsistentTriangle(MaxFaces) \/ DeleteFace

SpecUnbuild == Init /\ [][NextUnbuild]_vars

\* every builder and every editor of the adjacency lists
NextEdit ==
    \/ AddVertex(EditVertices)
    \/ AddTriangle(EditFaces)
    \/ AddFace(EditFaces)
    \/ DeleteEdge(1)
    \/ DeleteFace
    \/ CollapseEdge(1)
    \/ FlipEdge(EditEdges)

SpecEdit == Init /\ [][NextEdit]_vars

\* safeCollapseEdge on the triangles where collapses are studied
NextMerge ==
    \/ AddVertex(GrowVertices)
    \/ AddSoupTriangle(MaxFaces)
    \/ RegionGrowing
    \/ SafeCollapseEdge(1)

SpecMerge == Init /\ [][NextMerge]_vars

\* fillHoles on the triangles where collapses are studied: two of them touch
\* in one vertex only
NextTrace ==
    \/ AddVertex(GrowVertices)
    \/ AddSoupTriangle(MaxFaces)
    \/ RegionGrowing
    \/ FillHoles

SpecTrace == Init /\ [][NextTrace]_vars

\* region growing under a cosine bound
NextAngle ==
    \/ AddVertex(MaxVertices)
    \/ AddConsistentTriangle(MaxFaces)
    \/ RegionGrowing
    \/ RegionGrowingAngle(1)

SpecAngle == Init /\ [][NextAngle]_vars

NextCollapse ==
    \/ AddVertex(GrowVertices)
    \/ AddSoupTriangle(MaxFaces)
    \/ CollapseEdge(MaxCollapses)

SpecCollapse == Init /\ [][NextCollapse]_vars

NextFlip == AddVertex(MaxVertices) \/ AddConsistentTriangle(MaxFaces) \/ FlipEdge(MaxEdges)

SpecFlip == Init /\ [][NextFlip]_vars

\* flips of half-edges and of face pairs on meshes with faces that share no edge
NextTurn ==
    \/ AddVertex(GrowVertices)
    \/ AddSoupTriangle(MaxFaces)
    \/ FlipEdge(MaxEdges)
    \/ FlipEdgeOfFaces(TurnEdges)

SpecTurn == Init /\ [][NextTurn]_vars

NextGrow ==
    \/ AddVertex(GrowVertices)
    \/ AddConsistentTriangle(MaxFaces)
    \/ RegionGrowing
    \/ ResetUsed

SpecGrow == Init /\ [][NextGrow]_vars

NextSafe ==
    \/ AddVertex(MaxVertices)
    \/ AddConsistentTriangle(MaxFaces)
    \/ RegionGrowing
    \/ SafeCollapseEdge(1)

SpecSafe == Init /\ [][NextSafe]_vars

\* every call that adds or deletes a vertex; normals are given once a vertex
\* has been deleted or an edge collapsed
NextCount ==
    \/ AddVertex(MaxVertices)
    \/ (calls > 0 /\ AddNormal)
    \/ AddConsistentTriangle(EditFaces)
    \/ RegionGrowing
    \/ DeleteVertex(1)
    \/ DeleteFace
    \/ CollapseEdge(1)
    \/ SafeCollapseEdge(1)

SpecCount == Init /\ [][NextCount]_vars

NextFill ==
    \/ AddVertex(MaxVertices)
    \/ AddConsistentTriangle(MaxFaces)
    \/ RegionGrowing
    \/ FillHoles

SpecFill == Init /\ [][NextFill]_vars

\* segmentation passes mixed with the calls that delete faces
NextRegions ==
    \/ AddVertex(RegionVertices)
    \/ AddConsistentTriangle(EditFaces)
    \/ OptimizePlanes(MaxPasses, PlainPass, AnyNormals, {<<FALSE, {}>>})
    \/ RemoveDanglingArtifacts(MaxPasses)
    \/ DeleteFace
    \/ CollapseEdge(MaxPasses)

SpecRegions == Init /\ [][NextRegions]_vars

\* regions of the region list handed to deleteRegion after later segmentations
NextDiscard ==
    \/ AddVertex(RegionVertices)
    \/ AddConsistentTriangle(EditFaces)
    \/ OptimizePlanes(MaxDiscards, PlainPass, AnyNormals, {<<FALSE, {}>>})
    \/ RemoveDanglingArtifacts(MaxDiscards)
    \/ DeleteRegion(MaxDiscards)

SpecDiscard == Init /\ [][NextDiscard]_vars

\* removal of small patches from a mesh that was never segmented
NextDangling ==
    \/ AddVertex(GrowVertices)
    \/ AddConsistentTriangle(MaxFaces)
    \/ RemoveDanglingArtifacts(MaxCalls)

SpecDangling == Init /\ [][NextDangling]_vars

\* the plane optimisation of consistently wound meshes
NextPlanes ==
    \/ AddVertex(MaxVertices)
    \/ AddConsistentTriangle(MaxFaces)
    \/ OptimizePlanes(1, PlaneInputs, AnyNormals, FlickerRemoval)

SpecPlanes == Init /\ [][NextPlanes]_vars

\* the plane optimisation called again on the mesh it has segmented
NextRepeat ==
    \/ AddVertex(MaxVertices)
    \/ AddConsistentTriangle(EditFaces)
    \/ OptimizePlanes(MaxCalls, RepeatInputs, AnyNormals, {<<FALSE, {}>>})

SpecRepeat == Init /\ [][NextRepeat]_vars

\* the export of a segmented double pyramid
NextExport ==
    \/ AddVertex(GrowVertices)
    \/ AddNormal
    \/ AddBipyramidTriangle
    \/ OptimizePlanes(1, ExportPass, OddNormals, {<<FALSE, {}>>})
    \/ FinalizeAndRetesselate

SpecExport == Init /\ [][NextExport]_vars

\* the export of a segmented closed mesh of seven vertices
NextBuffers ==
    \/ AddVertex(RingVertices)
    \/ AddDipyramidTriangle
    \/ OptimizePlanes(1, ExportPass, OddNormals, {<<FALSE, {}>>})
    \/ FinalizeAndRetesselate

SpecBuffers == Init /\ [][NextBuffers]_vars

\* ------------------------------------------------------- the chunk grid
\* bits of std::size_t in the model (64 in the build): the arithmetic of
\* hashValue is unsigned and wraps at 2^SizeBits
SizeBits == 4

\* chunks along one axis
MaxAmount == 3

SizeValues == 2 ^ SizeBits

\* an int converted to std::size_t, as the usual arithmetic conversions do
\* with the int operand of a product or sum whose other operand is a size_t
ToSize(n) == n % SizeValues

Amounts == [x : 0..MaxAmount, y : 0..MaxAmount, z : 0..MaxAmount]

\* the hash with the stride of the y axis in the place of that of the z axis
hashValueAcross(amount, i, j, k) ==
    LET iy  == (ToSize(i) * amount.y) % SizeValues
        iyz == (iy * amount.z) % SizeValues
        jz  == (ToSize(j) * amount.y) % SizeValues
    IN  (((iyz + jz) % SizeValues) + ToSize(k)) % SizeValues

\* i * m_chunkAmount.y * m_chunkAmount.z + j * m_chunkAmount.z + k in std::size_t
hashValue(amount, i, j, k) ==
    LET iy  == (ToSize(i) * amount.y) % SizeValues
        iyz == (iy * amount.z) % SizeValues
        jz  == (ToSize(j) * amount.z) % SizeValues
    IN  (((iyz + jz) % SizeValues) + ToSize(k)) % SizeValues

\* the index triples of the chunks of a grid
ChunkTriples(amount) ==
    (0..(amount.x - 1)) \X (0..(amount.y - 1)) \X (0..(amount.z - 1))

MeshAlone ==
    UNCHANGED <<m_vertices, m_faces, m_regions, m_globalIndex, vertexHeap,
                edgeHeap, faceHeap, regionHeap, ub, hang, soup, calls>>

SetChunkAmount ==
    \E amount \in Amounts :
        /\ m_chunkAmount' = amount
        /\ last' = Call("setChunkAmount", <<amount>>, TRUE, "none", <<>>)
        /\ MeshAlone

\* hashValue on a chunk of the grid; the call remembers the one before it
HashValue ==
    \E t \in ChunkTriples(m_chunkAmount) :
        /\ last' = Call("hashValue", t, hashValue(m_chunkAmount, t[1], t[2], t[3]), "none",
                        IF last.op = "hashValue"
                        THEN <<[args |-> last.args, ret |-> last.ret]>>
                        ELSE <<>>)
        /\ UNCHANGED m_chunkAmount
        /\ MeshAlone

NextChunks ==
    \/ SetChunkAmount
    \/ HashValue

SpecChunks == Init /\ [][NextChunks]_vars

\* ------------------------------------------------------------ the claims
\* what collapseEdge(e) promises between the state before and the state after
CollapseEffect(e) ==
    /\ ~ub'
    /\ Len(m_vertices') = Len(m_vertices) - 1
    /\ Range(m_vertices') = Range(m_vertices) \ {end(Mesh, e)}
    /\ Len(m_faces') = Len(m_faces) - Sides(Mesh, e)
    /\ PairingHolds(Mesh')
    /\ FaceCycleHolds(Mesh')

\* C1: after any sequence of builder and editor calls every live half-edge e has
\* e.pair.pair = e, e.pair.start = e.end and e.pair.end = e.start
PairingInvariant == ~ub => PairingHolds(Mesh)

\* C2: after any sequence of builder and editor calls every face of m_faces is a
\* 3-cycle of next whose three half-edges refer to the face
FaceCycleInvariant == ~ub => FaceCycleHolds(Mesh)

\* C3 as claimed: collapseEdge(e) on any edge of a mesh that satisfies the
\* invariants removes e.end, removes the faces e and e.pair carried, and keeps
\* the pairing and face-cycle invariants
CollapseContract ==
    [][(last'.op = "collapseEdge" /\ Valid(Mesh)) => CollapseEffect(last'.args[1])]_vars

\* C3 as amended: the same for every edge e whose two end points differ
CollapseContractDistinctEnds ==
    [][(last'.op = "collapseEdge" /\ Valid(Mesh)
          /\ start(Mesh, last'.args[1]) # end(Mesh, last'.args[1]))
          => CollapseEffect(last'.args[1])]_vars

\* C3: a boundary edge with two distinct end points of a valid mesh was collapsed
CollapseBoundaryDone ==
    /\ last.op = "collapseEdge"
    /\ last.info.valid /\ ~last.info.loop /\ last.info.sides = 1
    /\ ~ub

\* C4: whenever safeCollapseEdge(e) returns false the mesh is exactly as before
\* the call: positions, vertex, half-edge and face sets, and all links
RejectLeavesMesh ==
    [][(last'.op = "safeCollapseEdge" /\ ~last'.ret /\ ~ub') => Mesh' = Mesh]_vars

\* after the call no half-edge of the ring is left without a face
RingClosed == \A e \in Boundary : edgeHeap'[e].live => edgeHeap'[e].face # 0

FillHolesTerminates == ~hang

\* C6: fillHoles returned from a ring of four half-edges that it could neither
\* shrink nor close, and left it open
RingLeftOpen ==
    /\ last.op = "fillHoles"
    /\ last.info.fillable /\ last.info.ring = 4 /\ last.args[1] = 5
    /\ Cardinality(Boundary) = 4
    /\ \A e \in Boundary : edgeHeap[e].used
    /\ ~ub /\ ~hang

\* the live half-edges from vertex a to vertex b
Between(a, b) == {e \in LiveEdges : edgeHeap[e].start = a /\ edgeHeap[e].end = b}

\* C7: after any sequence of addTriangle calls two vertices are connected by at
\* most one half-edge pair, one half-edge in each direction
OnePairPerVertexPair ==
    \A a, b \in Range(m_vertices) :
        /\ Cardinality(Between(a, b)) <= 1
        /\ Cardinality(Between(a, b)) = Cardinality(Between(b, a))
        /\ \A e \in Between(a, b) : edgeHeap[e].pair \in Between(b, a)

\* C7: two triangles that share an edge were inserted and five half-edge pairs exist
SharedEdgeInserted ==
    /\ Len(soup) = 2
    /\ Cardinality(Range(soup[1]) \cap Range(soup[2])) = 2
    /\ Cardinality(LiveEdges) = 10
    /\ ~ub

\* the undirected edges of triangle t
EdgesOf(t) == {{t[1], t[2]}, {t[2], t[3]}, {t[3], t[1]}}

\* the undirected edges of the triangles fed to addTriangle
SoupEdges == UNION {EdgesOf(soup[i]) : i \in 1..Len(soup)}

\* how many of the triangles use the undirected edge u
Uses(u) == Cardinality({i \in 1..Len(soup) : u \in EdgesOf(soup[i])})

TwoSided(e) == edgeHeap[e].face # 0 /\ edgeHeap[edgeHeap[e].pair].face # 0

\* C8: a consistently wound manifold triangle list gives one face per call, one
\* half-edge pair per undirected edge, faces on both sides of a pair exactly when
\* two triangles use its edge; the split square gives 4 vertices, 5 pairs,
\* 2 faces and the diagonal 0-2 as the only two-sided edge
WoundListBuilt ==
    /\ ~ub
    /\ Len(m_faces) = Len(soup)
    /\ Cardinality(LiveFaces) = Len(soup)
    /\ Cardinality(LiveEdges) = 2 * Cardinality(SoupEdges)
    /\ \A u \in SoupEdges : \A a, b \in u :
          a # b => /\ Cardinality(Between(a, b)) = 1
                   /\ \A e \in Between(a, b) : edgeHeap[e].pair \in Between(b, a)
    /\ \A e \in LiveEdges :
          /\ {edgeHeap[e].start, edgeHeap[e].end} \in SoupEdges
          /\ TwoSided(e) <=> Uses({edgeHeap[e].start, edgeHeap[e].end}) = 2
    /\ (m_vertices = <<1, 2, 3, 4>> /\ soup = << <<1, 2, 3>>, <<1, 3, 4>> >>)
          => /\ Cardinality(LiveEdges) = 10
             /\ Len(m_faces) = 2
             /\ {e \in LiveEdges : TwoSided(e)} = Between(1, 3) \cup Between(3, 1)
             /\ Cardinality(Between(1, 3) \cup Between(3, 1)) = 2

\* C8: the square was built with addTriangle(0,1,2) and addTriangle(0,2,3)
SquareBuilt ==
    /\ m_vertices = <<1, 2, 3, 4>>
    /\ soup = << <<1, 2, 3>>, <<1, 3, 4>> >>
    /\ last.op = "addTriangle" /\ last.args = <<0, 2, 3>>

\* the vertices of face f
FaceVertices(f) == {faceVertex(Mesh, f, k) : k \in 0..2}

\* C9: flipEdge(e) on the interior edge e = A->B of triangles (A,B,C) and
\* (B,A,D), then flipEdge on the edge that flip made, leaves the four vertices,
\* two faces {A,B,C} and {A,B,D} on the same four outer half-edges, and one
\* half-edge pair between A and B
FlipTwiceRestores ==
    (/\ last.op = "flipEdge"
     /\ last.info.before.made # {}
     /\ last.info.before.valid
     /\ Cardinality(Range(last.info.before.corners)) = 4)
    => LET q == last.info.before
           A == q.corners[1]
           B == q.corners[2]
           C == q.corners[3]
           D == q.corners[4]
           quadFaces == {edgeHeap[o].face : o \in q.outer}
       IN  /\ ~ub
           /\ {A, B, C, D} \subseteq Range(m_vertices)
           /\ Range(m_faces) = Range(q.faces)
           /\ q.outer \subseteq LiveEdges
           /\ Cardinality(quadFaces) = 2
           /\ quadFaces \subseteq Range(m_faces)
           /\ {FaceVertices(f) : f \in quadFaces} = {{A, B, C}, {A, B, D}}
           /\ Cardinality(Between(A, B)) = 1
           /\ Cardinality(Between(B, A)) = 1
           /\ \A e \in Between(A, B) :
                 /\ edgeHeap[e].pair \in Between(B, A)
                 /\ TwoSided(e)
                 /\ {edgeHeap[e].face, edgeHeap[edgeHeap[e].pair].face} = quadFaces
           /\ PairingHolds(Mesh)
           /\ FaceCycleHolds(Mesh)

\* C9: the diagonal of a quad with four distinct corners was flipped and the
\* edge made by that flip was flipped again
FlippedTwice ==
    /\ last.op = "flipEdge"
    /\ last.info.before.made # {}
    /\ last.info.before.valid
    /\ Cardinality(Range(last.info.before.corners)) = 4
    /\ last.info.quad.made # {}

\* the faces across the three half-edges of face f
Neighbours(f) ==
    {face(Mesh, pair(Mesh, faceEdge(Mesh, f, k))) : k \in 0..2} \ {0}

\* the faces reachable from the faces of S through edge-pair adjacency
RECURSIVE Reachable(_)
Reachable(S) ==
    LET N == S \cup UNION {Neighbours(f) : f \in S}
    IN  IF N = S THEN S ELSE Reachable(N)

\* C10: regionGrowing(seed, region) started with every visited marker cleared adds
\* to the region exactly the faces reachable from the seed, each once, and marks
\* exactly those faces visited
GrowsReachable ==
    (last.op = "regionGrowing" /\ last.info)
    => LET seed   == last.args[1]
           region == last.args[2]
           reach  == Reachable({seed})
       IN  /\ ~ub
           /\ Range(regionHeap[region].faces) = reach
           /\ Len(regionHeap[region].faces) = Cardinality(reach)
           /\ {f \in LiveFaces : faceHeap[f].used} = reach
           /\ \A f \in LiveFaces : faceHeap[f].region = region <=> f \in reach
           /\ last.ret = Cardinality(reach) - 1

\* C10: from a mesh with every marker cleared a region of two faces was grown
\* and a third face, not reachable from the seed, was left out
GrewPart ==
    /\ last.op = "regionGrowing" /\ last.info
    /\ Len(regionHeap[last.args[2]].faces) = 2
    /\ Cardinality(LiveFaces) = 3
    /\ ~ub

\* C11: no region of the region list holds a face that is gone from the face list
RegionsHoldLiveFaces ==
    ~ub => \A i \in 1..Len(m_regions) :
              \A j \in 1..Len(regionHeap[m_regions[i]].faces) :
                  /\ IsFace(Mesh, regionHeap[m_regions[i]].faces[j])
                  /\ Has(m_faces, regionHeap[m_regions[i]].faces[j])

FaceEdges(f) == {faceEdge(Mesh, f, k) : k \in 0..2}

\* the half-edges that leave vertex v after the call
LeavingAfter(v) == {e \in 1..Len(edgeHeap') : edgeHeap'[e].live /\ edgeHeap'[e].start = v}

DanglingStrictlySmaller ==
    [][(last'.op = "removeDanglingArtifacts" /\ last'.info /\ Valid(Mesh))
          => /\ ~ub'
             /\ \A f \in LiveFaces :
                   IF Cardinality(Reachable({f})) < last'.args[1]
                   THEN ~Has(m_faces', f)
                   ELSE Has(m_faces', f)]_vars

\* the regions made by the call that has just returned: the handles past the end
\* of the region heap before the call
MadeRegions == (Len(regionHeap) + 1)..Len(regionHeap')

\* the regions made by the last of iterations passes of the call; every pass
\* makes equally many
FinalRegions(iterations) ==
    {r \in MadeRegions : r > Len(regionHeap') - Cardinality(MadeRegions) \div iterations}

\* the positions of the region list after the call whose region lists face f
HomesAfter(f) ==
    {i \in 1..Len(m_regions') : Has(regionHeap'[m_regions'[i]].faces, f)}

\* C15: after optimizePlanes(iterations >= 1, ...) the region list holds only
\* regions made by the final iteration, each once, and the retained regions
\* partition the faces still in the mesh: every such face is listed once by one
\* region of the list, the one it refers to, and the list's regions hold no other
\* faces
FinalRegionsPartition ==
    [][(last'.op = "optimizePlanes" /\ last'.args[1] >= 1 /\ Valid(Mesh))
          => /\ ~ub'
             /\ \A i \in 1..Len(m_regions') :
                   /\ m_regions'[i] \in FinalRegions(last'.args[1])
                   /\ regionHeap'[m_regions'[i]].live
                   /\ \A j \in 1..Len(m_regions') : m_regions'[j] = m_regions'[i] => j = i
                   /\ Range(regionHeap'[m_regions'[i]].faces) \subseteq Range(m_faces')
             /\ \A r \in MadeRegions \ FinalRegions(last'.args[1]) : ~regionHeap'[r].live
             /\ \A k \in 1..Len(m_faces') :
                   /\ Cardinality(HomesAfter(m_faces'[k])) = 1
                   /\ \A i \in HomesAfter(m_faces'[k]) :
                         /\ Count(regionHeap'[m_regions'[i]].faces, m_faces'[k]) = 1
                         /\ faceHeap'[m_faces'[k]].region = m_regions'[i]]_vars

\* C15: optimizePlanes ran two passes over three faces of two kinds and kept the
\* regions of the second pass only
SecondPassKept ==
    /\ last.op = "optimizePlanes"
    /\ last.args[1] = 2
    /\ Len(m_faces) = 3
    /\ Len(m_regions) >= 2
    /\ Cardinality({r \in 1..Len(regionHeap) : ~regionHeap[r].live}) >= 2
    /\ ~ub

\* the faces reachable from the faces of S through neighbours whose normal is of
\* the class given by normals to the faces of S
RECURSIVE AlikePatch(_, _)
AlikePatch(S, normals) ==
    LET N == S \cup {g \in UNION {Neighbours(f) : f \in S} :
                        \E f \in S : normals[g] = normals[f]}
    IN  IF N = S THEN S ELSE AlikePatch(N, normals)

\* C16: after optimizePlanes(iterations >= 1, ..., smallRegionSize, ...) every
\* face that the final pass put in a region of fewer than smallRegionSize faces
\* is gone from the mesh, and every face of a region of at least smallRegionSize
\* faces is still in the face list unless flicker removal deleted it
SmallRegionsDeleted ==
    [][(last'.op = "optimizePlanes" /\ last'.args[1] >= 1 /\ Valid(Mesh))
          => /\ ~ub'
             /\ \A f \in LiveFaces :
                   IF Cardinality(AlikePatch({f}, last'.args[2])) < last'.args[4]
                   THEN ~Has(m_faces', f) /\ ~faceHeap'[f].live
                   ELSE \/ Has(m_faces', f) /\ faceHeap'[f].live
                        \/ last'.args[5] /\ f \in last'.args[6]]_vars

\* C16: of three faces one had a normal of its own: optimizePlanes with
\* smallRegionSize 2 deleted it and kept the region of the two others
SmallRegionGone ==
    /\ last.op = "optimizePlanes"
    /\ last.args[1] >= 1 /\ last.args[4] = 2 /\ ~last.args[5]
    /\ DOMAIN last.args[2] = 1..3
    /\ Len(m_faces) = 2
    /\ Len(m_regions) = 1 /\ Len(regionHeap[m_regions[1]].faces) = 2
    /\ ~ub

\* C17: safeCollapseEdge(e) on a valid mesh whose faces all belong to a region
\* returns true exactly if it went on to collapseEdge(e): after true the vertex
\* list is one shorter and e, e.pair and e.end are gone; after false one of the
\* guards answered and the numbers of vertices, half-edges and faces are as before
SafeCollapseReports ==
    [][(last'.op = "safeCollapseEdge" /\ Valid(Mesh)
          /\ \A f \in LiveFaces : IsRegion(Mesh, faceHeap[f].region))
          => LET e == last'.args[1]
             IN  /\ ~ub'
                 /\ last'.ret <=> last'.guard = "none"
                 /\ last'.ret
                       => /\ Len(m_vertices') = Len(m_vertices) - 1
                          /\ ~edgeHeap'[e].live
                          /\ ~edgeHeap'[edgeHeap[e].pair].live
                          /\ ~vertexHeap'[edgeHeap[e].end].live
                          /\ ~Has(m_vertices', edgeHeap[e].end)
                 /\ ~last'.ret
                       => /\ m_vertices' = m_vertices
                          /\ m_faces' = m_faces
                          /\ \A x \in 1..Len(edgeHeap') :
                                x \in LiveEdges <=> edgeHeap'[x].live]_vars

\* C17: safeCollapseEdge collapsed a boundary edge of the square of two faces
\* into one triangle and answered true
SafeCollapseDone ==
    /\ last.op = "safeCollapseEdge" /\ last.ret
    /\ Len(m_faces) = 1 /\ Len(m_vertices) = 3
    /\ ~ub

\* C18: finalize() after any sequence of addVertex, addTriangle, deleteFace,
\* collapseEdge and flipEdge calls numbers the vertices of the vertex list, each
\* listed once, 0..n-1, and emits for every face of the face list three indices
\* below n, each the number of the corresponding vertex of the face, which is a
\* vertex of the list
FinalizeIndexesFaces ==
    last.op = "finalize"
    => /\ ~ub
       /\ last.ret.nVertices = Len(m_vertices)
       /\ Cardinality(Range(m_vertices)) = Len(m_vertices)
       /\ last.ret.nFaces = Len(m_faces)
       /\ DOMAIN last.ret.indexBuffer = 1..Len(m_faces)
       /\ \A i \in 1..Len(m_faces) : \A k \in 1..3 :
             LET v == faceVertex(Mesh, m_faces[i], k - 1)
             IN  /\ last.ret.indexBuffer[i][k] \in 0..(Len(m_vertices) - 1)
                 /\ IsVertex(Mesh, v)
                 /\ m_vertices[last.ret.indexBuffer[i][k] + 1] = v

\* C19: for every corner of a face of a region that is not in-plane,
\* finalizeAndRetesselate emits the normal that finalize emits for that vertex:
\* the stored vertex normal with its sign flipped
PlainNormalsFlipped ==
    (last.op = "finalizeAndRetesselate" /\ ~ub)
    => \A p \in 1..Len(last.ret.plain) :
          LET v == last.ret.plain[p].vertex
          IN  /\ Has(m_vertices, v)
              /\ last.ret.plain[p].normal = finalize(Mesh).normalBuffer[IndexOf(m_vertices, v)]
              /\ last.ret.plain[p].normal = Neg(normal(Mesh, v))

\* C20: whenever finalizeAndRetesselate reaches a region with nPointsUsed at 75%
\* or more of vnc_buffer_size, it enlarges the vertex, normal and colour buffers
\* before it emits the region, and likewise the index buffers with nIndizesUsed
\* and index_buffer_size
GrowsAtThreeQuarters ==
    last.op = "finalizeAndRetesselate"
    => \A i \in 1..Len(last.ret.starts) :
          /\ (i <= Len(last.ret.vncGrown)
                 /\ 4 * last.ret.starts[i].nPointsUsed
                        >= 3 * last.ret.starts[i].vnc_buffer_size)
                => last.ret.vncGrown[i]
          /\ (i <= Len(last.ret.indexGrown)
                 /\ 4 * last.ret.starts[i].nIndizesUsed
                        >= 3 * last.ret.starts[i].index_buffer_size)
                => last.ret.indexGrown[i]

\* C21: after any sequence of builder and editor calls every live half-edge is
\* listed once by its start among the outgoing and once by its end among the
\* incoming half-edges, every entry of such a list is a live half-edge that
\* leaves (enters) the vertex, and both ends are vertices of the vertex list
AdjacencyInvariant == ~ub => AdjacencyHolds(Mesh)

\* no two distinct live half-edges of m run from the same vertex to the same vertex
EdgesApart(m) ==
    \A a, b \in 1..Len(m.E) :
        (m.E[a].live /\ m.E[b].live /\ a # b)
            => ~(m.E[a].start = m.E[b].start /\ m.E[a].end = m.E[b].end)

\* C22: a safeCollapseEdge(e) that returns true on a valid mesh with every face
\* in a region and no two half-edges on the same ordered vertex pair leaves no two
\* distinct half-edges with the same start and the same end
SafeCollapseKeepsEdgesApart ==
    [][(last'.op = "safeCollapseEdge" /\ last'.ret /\ ~ub' /\ Valid(Mesh)
          /\ EdgesApart(Mesh)
          /\ \A f \in LiveFaces : IsRegion(Mesh, faceHeap[f].region))
          => EdgesApart(Mesh')]_vars

\* C23: addTriangle never overwrites a face reference: every half-edge that had a
\* face before the call has the same face after it, for any index triple
AddTriangleKeepsFaces ==
    [][(last'.op = "addTriangle" /\ ~ub')
          => \A e \in LiveEdges :
                edgeHeap[e].face # 0 => edgeHeap'[e].face = edgeHeap[e].face]_vars

\* the vertices of m with no half-edge and no face
Bare(m) ==
    [m EXCEPT !.E = <<>>, !.F = <<>>, !.fs = <<>>,
              !.V = [v \in DOMAIN m.V |-> [m.V[v] EXCEPT !.out = <<>>, !.in = <<>>]]]

\* m after addFace on the first k triangles of tris, given by vertex references
RECURSIVE facesAdded(_, _, _)
facesAdded(m, tris, k) ==
    IF k = 0 THEN m
    ELSE addFace(facesAdded(m, tris, k - 1), tris[k][1], tris[k][2], tris[k][3])

\* C24: for every consistently wound triangle sequence, addFace on the vertex
\* references builds the mesh that addTriangle builds on the indices: the same
\* half-edges with the same start, end, pair, next and face, the same adjacency
\* lists and the same first half-edge of every face
BuildersAgree == ~ub => facesAdded(Bare(Mesh), soup, Len(soup)) = Mesh

\* C24: three triangles were built that share half-edge pairs, and addFace found
\* and reused the existing pairs too
BuildersReusedPairs ==
    /\ ~ub
    /\ Len(soup) = MaxFaces
    /\ Len(edgeHeap) < 6 * MaxFaces
    /\ Len(facesAdded(Bare(Mesh), soup, Len(soup)).E) = Len(edgeHeap)

\* C25: after a safeCollapseEdge(e) that returns true the surviving vertex, the
\* former start of e, is at the midpoint of the positions the start and the end of
\* e had before the call, where collapseEdge(e) alone would have put it
SafeCollapseAtMidpoint ==
    [][(last'.op = "safeCollapseEdge" /\ last'.ret /\ ~ub' /\ Valid(Mesh))
          => LET e == last'.args[1]
                 p1 == edgeHeap[e].start
                 p2 == edgeHeap[e].end
             IN  /\ vertexHeap'[p1].pos = Midpoint(vertexHeap[p1].pos, vertexHeap[p2].pos)
                 /\ vertexHeap'[p1].pos = position(collapseEdge(Mesh, e), p1)]_vars

\* the faces allocated by the call
FacesMade == {f \in 1..Len(faceHeap') : f > Len(faceHeap)}

\* C26: fillHoles on any mesh finds, for every face it synthesizes, a face with a
\* region across the first half-edge of the new face: it dereferences no missing
\* face or region, and every new face is in a region that lists it and in the
\* face list
FillJoinsRegion ==
    [][last'.op = "fillHoles"
          => /\ ~ub'
             /\ \A f \in FacesMade :
                   /\ Has(m_faces', f)
                   /\ IsRegion(Mesh', faceHeap'[f].region)
                   /\ Has(regionHeap'[faceHeap'[f].region].faces, f)]_vars

\* C27: a ring of n half-edges that fillHoles(m) left alone because n is not
\* below m is traced and kept for closing by a following fillHoles(m2), n < m2,
\* whatever markers the first call left on the half-edges
FillIgnoresOldMarkers ==
    [][\A n \in 3..MaxHole :
          (/\ last.op = "fillHoles" /\ ~(n < last.args[1])
           /\ last'.op = "fillHoles" /\ n < last'.args[1]
           /\ Valid(Mesh) /\ RingHole(n)
           /\ \A f \in LiveFaces : IsRegion(Mesh, faceHeap[f].region))
              => last'.info.kept = <<n>>]_vars

\* C28: removeDanglingArtifacts(threshold) called right after optimizePlanes on a
\* valid mesh deletes every face of a patch of fewer than threshold faces,
\* whatever visited markers the segmentation left on the faces
DanglingAfterPlanes ==
    [][(last.op = "optimizePlanes" /\ last'.op = "removeDanglingArtifacts"
          /\ Valid(Mesh))
          => \A f \in LiveFaces :
                Cardinality(Reachable({f})) < last'.args[1] => ~Has(m_faces', f)]_vars

\* the contours of more than two half-edges that fillHoles traces in the mesh
AllTraced == findHoles(Mesh, <<>>, Len(edgeHeap) + 2, 1, 0).holes

\* the first half-edge in the order of v->out that has no face and is not, and
\* whose pair is not, among the half-edges traced so far; or null
firstToTrace(v, traced) ==
    LET o == out(Mesh, v)
        cand == {i \in 1..Len(o) : /\ edgeHeap[o[i]].face = 0
                                   /\ o[i] \notin traced
                                   /\ edgeHeap[o[i]].pair \notin traced}
    IN  IF cand = {} THEN 0 ELSE o[CHOOSE i \in cand : \A j \in cand : i <= j]

\* C29: in every contour that fillHoles traces on a valid mesh without markers,
\* each half-edge is followed by the first half-edge, in the order of the out list
\* of its end vertex, that has no face and has not been traced yet
TraceTakesFirst ==
    [][(last'.op = "fillHoles" /\ Fillable)
          => LET holes == AllTraced
                 traced(c, i) == UNION {Range(holes[d]) : d \in 1..(c - 1)}
                                    \cup {holes[c][j] : j \in 1..i}
             IN  \A c \in 1..Len(holes) : \A i \in 1..(Len(holes[c]) - 1) :
                    holes[c][i + 1]
                        = firstToTrace(end(Mesh, holes[c][i]), traced(c, i))]_vars

\* C30: regionGrowing(seed, normal, angle, region) puts a face other than the seed
\* in the region only if the dot product of its normal with the reference normal
\* exceeds the bound; a face pointing against the reference normal stays out
GrowingAdmitsByCosine ==
    [][(last'.op = "regionGrowingAngle" /\ ~ub')
          => \A f \in Range(regionHeap'[last'.args[5]].faces) \ {last'.args[1]} :
                dot(last'.args[2][f], last'.args[3]) > last'.args[4]]_vars

\* the faces given a visited marker by the call
FacesMarked == {f \in LiveFaces : faceHeap'[f].used /\ ~faceHeap[f].used}

\* C31: both regionGrowing variants, called on a valid mesh with every visited
\* marker cleared, return one less than the number of faces the call put in the
\* region, which are the faces it marked visited
GrowingCountsFaces ==
    [][(/\ last'.op \in {"regionGrowing", "regionGrowingAngle"}
        /\ Valid(Mesh)
        /\ \A f \in LiveFaces : ~faceHeap[f].used)
          => LET region == last'.args[Len(last'.args)]
             IN  /\ ~ub'
                 /\ last'.ret + 1 = Len(regionHeap'[region].faces)
                 /\ last'.ret + 1 = Cardinality(FacesMarked)
                 /\ Range(regionHeap'[region].faces) = FacesMarked]_vars

\* C31: a thresholded regionGrowing on three faces took the seed and one
\* neighbour, left the third face out and returned 1
GrowingCountedOne ==
    /\ last.op = "regionGrowingAngle" /\ last.ret = 1
    /\ Len(m_faces) = MaxFaces
    /\ Cardinality({f \in LiveFaces : faceHeap[f].used}) = 2
    /\ ~ub

\* two faceless half-edges lead from the end of h over a third vertex to its start
HolePath(h) ==
    \E x, y \in Boundary :
        /\ edgeHeap[x].start = edgeHeap[h].end
        /\ edgeHeap[y].start = edgeHeap[x].end
        /\ edgeHeap[y].end = edgeHeap[h].start

\* e borders a hole of three half-edges: e or its pair is one of them
BordersTriangleHole(e) == HolePath(e) \/ HolePath(edgeHeap[e].pair)

\* C32: on a valid mesh with every face in a region safeCollapseEdge(e) on a
\* half-edge e that borders a hole of three half-edges returns false and
\* removes no vertex
SafeCollapseKeepsTriangleHoles ==
    [][(last'.op = "safeCollapseEdge" /\ ~ub' /\ Valid(Mesh)
          /\ (\A f \in LiveFaces : IsRegion(Mesh, faceHeap[f].region))
          /\ BordersTriangleHole(last'.args[1]))
          => ~last'.ret /\ Len(m_vertices') = Len(m_vertices)]_vars

\* the guard of lines 735-739 as far as it reaches: the half-edge from whose
\* end two faceless half-edges lead back to its start is rejected with the
\* mesh left alone, whatever detectFlicker answers
HoleSideRejected ==
    [](Valid(Mesh) /\ (\A f \in LiveFaces : IsRegion(Mesh, faceHeap[f].region))
          => \A e \in LiveEdges : HolePath(e)
                => \A fl \in Flickers :
                      /\ ~safeCollapseEdge(Mesh, e, fl[1], fl[2]).ret
                      /\ safeCollapseEdge(Mesh, e, fl[1], fl[2]).m = Mesh)

\* C33: on a valid mesh flipEdge(e) on a half-edge with no face on e or on its
\* pair, and flipEdge(f1, f2) on two faces that share no edge, leave vertices,
\* half-edges, faces, links and adjacency lists exactly as they were
FlipLeavesAlone ==
    [][(\/ /\ last'.op = "flipEdge"
           /\ Valid(Mesh)
           /\ ~TwoSided(last'.args[1])
        \/ /\ last'.op = "flipEdgeOfFaces"
           /\ last'.info.valid /\ last'.info.apart
           /\ last'.args[1] # last'.args[2])
          => Mesh' = Mesh]_vars

\* C33: both calls were made where they must change nothing: flipEdge on a
\* boundary half-edge, after flipEdge(f1, f2) on two faces that only share a vertex
\* while f1 has a face across its first half-edge
FlipLeftAlone ==
    /\ last.op = "flipEdgeOfFaces"
    /\ last.info.valid /\ last.info.apart
    /\ last.args[1] # last.args[2]
    /\ TwoSided(faceHeap[last.args[1]].edge)
    /\ Len(m_faces) = 3
    /\ ~ub

\* C34: flipEdge(e) on a valid mesh, e = A->B between the triangles (A,B,C) and
\* (B,A,D) with four distinct corners, keeps the vertex list, the face list and
\* the number of half-edge pairs, removes the pair between A and B, creates
\* exactly one pair between C and D, and leaves the two faces on {C,D,B} and
\* {D,C,A}, each on two of the four original outer half-edges
FlipTurnsDiagonal ==
    [][(/\ last'.op = "flipEdge"
        /\ last'.info.quad.valid
        /\ last'.info.quad.made # {}
        /\ Cardinality(Range(last'.info.quad.corners)) = 4)
          => LET e == last'.args[1]
                 p == edgeHeap[e].pair
                 q == last'.info.quad
                 A == q.corners[1]
                 B == q.corners[2]
                 C == q.corners[3]
                 D == q.corners[4]
                 newEdge == Len(edgeHeap) + 1
                 newPair == Len(edgeHeap) + 2
                 quadFaces == {edgeHeap[e].face, edgeHeap[p].face}
                 after(a, b) == {x \in LiveEdges' : /\ edgeHeap'[x].start = a
                                                     /\ edgeHeap'[x].end = b}
                 cornersAfter(f) == {faceVertex(Mesh', f, k) : k \in 0..2}
             IN  /\ ~ub'
                 /\ m_vertices' = m_vertices
                 /\ m_faces' = m_faces
                 /\ LiveFaces' = LiveFaces
                 /\ Cardinality(LiveEdges') = Cardinality(LiveEdges)
                 /\ LiveEdges' = (LiveEdges \ {e, p}) \cup {newEdge, newPair}
                 /\ after(A, B) = Between(A, B) \ {e}
                 /\ after(B, A) = Between(B, A) \ {p}
                 /\ ~edgeHeap'[e].live /\ ~edgeHeap'[p].live
                 /\ after(C, D) = Between(C, D) \cup {newEdge}
                 /\ after(D, C) = Between(D, C) \cup {newPair}
                 /\ edgeHeap'[newEdge].pair = newPair
                 /\ edgeHeap'[newPair].pair = newEdge
                 /\ {cornersAfter(f) : f \in quadFaces} = {{C, D, B}, {D, C, A}}
                 /\ \A o \in q.outer :
                       /\ edgeHeap'[o].start = edgeHeap[o].start
                       /\ edgeHeap'[o].end = edgeHeap[o].end
                       /\ edgeHeap'[o].pair = edgeHeap[o].pair
                       /\ edgeHeap'[o].face \in quadFaces
                 /\ \A f \in quadFaces :
                       Cardinality({o \in q.outer : edgeHeap'[o].face = f}) = 2
                 /\ Valid(Mesh)']_vars

\* C34: the diagonal of a quad with four distinct corners on a valid mesh was
\* flipped for the first time
DiagonalTurned ==
    /\ last.op = "flipEdge"
    /\ last.info.quad.made # {} /\ last.info.quad.valid
    /\ Cardinality(Range(last.info.quad.corners)) = 4
    /\ last.info.before.made = {}
    /\ last.info.quad.made \subseteq LiveEdges
    /\ ~ub

\* the vertices ever passed to addTriangle
EverUsed == UNION {Range(soup[i]) : i \in 1..Len(soup)}

\* C35: after any sequence of addTriangle and deleteFace calls on consistently
\* wound manifold input every live half-edge has a face on itself or on its
\* pair, and every vertex of the vertex list that a triangle ever used has an
\* outgoing half-edge
NothingLeftBare ==
    /\ ~ub
    /\ \A e \in LiveEdges : edgeHeap[e].face # 0 \/ edgeHeap[edgeHeap[e].pair].face # 0
    /\ \A v \in Range(m_vertices) \cap EverUsed : Len(vertexHeap[v].out) > 0

\* C35: deleteFace deleted a face next to another one and, with its last
\* half-edge pairs, the vertex only it used
FaceAndVertexGone ==
    /\ last.op = "deleteFace"
    /\ Len(m_faces) = 1
    /\ Len(soup) = 2
    /\ EverUsed \ Range(m_vertices) # {}
    /\ ~ub

\* C36: deleteRegion(region) on a valid mesh, for a live region whose face list
\* holds faces of the face list only, returns without undefined behaviour and
\* without looping for ever, and none of the faces that were in the region is
\* in the face list afterwards
DeleteRegionEmpties ==
    [][(/\ last'.op = "deleteRegion"
        /\ Valid(Mesh)
        /\ IsRegion(Mesh, last'.args[1])
        /\ Range(regionHeap[last'.args[1]].faces) \subseteq Range(m_faces))
          => /\ ~ub' /\ ~hang'
             /\ Range(m_faces') \cap Range(regionHeap[last'.args[1]].faces) = {}]_vars

\* after the step every listed region and every region a listed face refers to
\* was allocated by the step
OnlyNewRegions ==
    /\ ~ub'
    /\ \A i \in 1..Len(m_regions') : m_regions'[i] > Len(regionHeap)
    /\ \A k \in 1..Len(m_faces') : faceHeap'[m_faces'[k]].region > Len(regionHeap)

\* C37 as stated: a second optimizePlanes call on the mesh, whatever its
\* arguments, leaves only regions of that call in the region list and on the
\* surviving faces
SecondCallRenews ==
    [][(last'.op = "optimizePlanes" /\ calls = 1 /\ Valid(Mesh)) => OnlyNewRegions]_vars

\* C37: a second optimizePlanes call with iterations >= 1 on the mesh leaves
\* only regions of that call in the region list and on the surviving faces; no
\* region of the first call is listed or referred to by a face
SecondPassRenews ==
    [][(last'.op = "optimizePlanes" /\ calls = 1 /\ last'.args[1] >= 1 /\ Valid(Mesh))
          => OnlyNewRegions]_vars

\* C37: the second call segmented faces that the first call had left in listed
\* regions
SegmentedAgain ==
    /\ last.op = "optimizePlanes"
    /\ calls = 2
    /\ last.args[1] >= 1
    /\ m_faces # <<>>
    /\ m_regions # <<>>
    /\ \E r \in 1..Len(regionHeap) :
          regionHeap[r].live /\ regionHeap[r].faces # <<>> /\ ~Has(m_regions, r)
    /\ ~ub

\* C38: after any sequence of addVertex, deleteVertex, deleteFace, collapseEdge
\* and safeCollapseEdge calls without undefined behaviour m_globalIndex is the
\* length of the vertex list, and addNormal(n) on a non-empty vertex list passes
\* its assertion and gives n to the vertex added last among those in the list,
\* and to no other
CounterFollowsList ==
    /\ [](~ub => m_globalIndex = Len(m_vertices))
    /\ [][(last'.op = "addNormal" /\ m_vertices # <<>>)
            => /\ ~ub'
               /\ \A v \in Range(m_vertices) :
                     vertexHeap'[v].normal =
                        IF \A w \in Range(m_vertices) : w <= v
                        THEN last'.args[1] ELSE vertexHeap[v].normal]_vars

\* C38: addNormal was called after two vertices had been deleted, the one
\* added last among them
NormalAfterDeletions ==
    /\ last.op = "addNormal"
    /\ Len(m_vertices) < Len(vertexHeap) - 1
    /\ m_vertices[Len(m_vertices)] < Len(vertexHeap)
    /\ m_vertices # <<>>
    /\ ~ub

\* C39: finalizeAndRetesselate on a valid mesh whose listed regions are live and
\* hold faces of the face list writes every float and every index below the
\* capacity of its buffer and loses no storage in a growth step: the call ends
\* without undefined behaviour
WritesBelowCapacity ==
    [][(/\ last'.op = "finalizeAndRetesselate"
        /\ Valid(Mesh)
        /\ m_vertices # <<>>
        /\ \A i \in 1..Len(m_regions) :
              /\ IsRegion(Mesh, m_regions[i])
              /\ Range(regionHeap[m_regions[i]].faces) \subseteq Range(m_faces))
          => ~last'.ret.ub]_vars

\* ------------------------------------------------------------------- C40
ChunkCount == m_chunkAmount.x * m_chunkAmount.y * m_chunkAmount.z

\* the call before this one hashed another chunk of the same grid
HashedTwo == last.op = "hashValue" /\ last.info # <<>> /\ last.info[1].args # last.args

\* C40 as stated: on every grid, hashValue gives a chunk a value below
\* X * Y * Z, and two different chunks of the grid get different values.
HashValueApart ==
    last.op = "hashValue" =>
        /\ last.ret < ChunkCount
        /\ HashedTwo => last.info[1].ret # last.ret

\* C40, amended: on a grid whose number of chunks X * Y * Z is at most the
\* number of values of std::size_t, hashValue gives the chunk (i, j, k) the
\* value i * Y * Z + j * Z + k, which is below X * Y * Z, and two different
\* chunks of the grid get different values.
HashValueApartInWidth ==
    (last.op = "hashValue" /\ ChunkCount <= SizeValues) =>
        /\ last.ret = last.args[1] * m_chunkAmount.y * m_chunkAmount.z
                        + last.args[2] * m_chunkAmount.z + last.args[3]
        /\ last.ret < ChunkCount
        /\ HashedTwo => last.info[1].ret # last.ret

\* the last chunk of a grid of 2 x 3 x 2 chunks was hashed after another one
LastChunkHashed ==
    /\ HashedTwo
    /\ m_chunkAmount = [x |-> 2, y |-> 3, z |-> 2]
    /\ last.args = <<1, 2, 1>>
    /\ last.ret = ChunkCount - 1

====
